---- MODULE Spec2Model ----
(***************************************************************************)
(* Model of the ebook-to-audiobook converters of this repository.          *)
(*                                                                         *)
(* gradio_launch.py (specifications Spec, SpecSort and those named below): *)
(* chapter segmentation (save_chapters_as_text), the flattened views       *)
(* (process_chapter_files, combine_chapters), per-sentence synthesis with  *)
(* one sanitized retry (convert_chapters_to_audio_espeak) and the final    *)
(* assembly (create_m4b_from_chapters: sort, combine_wav_files,            *)
(* generate_ffmpeg_metadata, create_m4b).  SpecSeq serves requests one     *)
(* after another, SpecPair two at the same time, SpecCover one with a file *)
(* at the cover path; SpecFlat and SpecSanitize apply combine_chapters and *)
(* sanitize_sentence to texts of their own.                                *)
(*                                                                         *)
(* app.py (specification SpecApp): the command checks, cover extraction,   *)
(* conversion to text, the synthesizer alone (wav) or piped into an        *)
(* encoder (mp3, ogg), the audio test, cover embedding and the cleanup of  *)
(* convert_ebook_to_audio.                                                 *)
(*                                                                         *)
(* Text is a sequence of one-character strings.  A document item is a      *)
(* record [len, words]: len is len(text) of the item's extracted text and  *)
(* words is the text's distinguishing content (what the tokenizer hands    *)
(* to the synthesizer); the filler that makes a long item long is not      *)
(* spelled out.  A waveform is a sequence of clips [sent, frames].         *)
(***************************************************************************)
EXTENDS Integers, Sequences, FiniteSets, TLC

(***************************************************************************)
(* Bounds of the model.                                                    *)
(***************************************************************************)
MaxItems == 3
MaxFrames == 1
FrameRate == 1500
MaxChapters == 11

(***************************************************************************)
(* Characters and strings.                                                 *)
(***************************************************************************)
\* the characters used by the model, in code-point order
CharOrder ==
  << "\n", " ", "\"", "'", "-", ".", "/",
     "0", "1", "2", "3", "4", "5", "6", "7", "8", "9",
     "A", "B", "C", "W", "_",
     "a", "b", "c", "d", "e", "f", "g", "h", "i", "j", "k", "l", "m",
     "n", "o", "p", "q", "r", "s", "t", "u", "v", "w", "x", "y", "z" >>

Ord(c) == CHOOSE i \in 1..Len(CharOrder) : CharOrder[i] = c

DigitChars == << "0", "1", "2", "3", "4", "5", "6", "7", "8", "9" >>

IsDigit(c) == \E i \in 1..10 : DigitChars[i] = c

DigitVal(c) == (CHOOSE i \in 1..10 : DigitChars[i] = c) - 1

IsSpace(c) == c \in { " ", "\n" }

\* str(n) for n >= 0
RECURSIVE Digits(_)
Digits(n) ==
  IF n < 10 THEN << DigitChars[n + 1] >>
  ELSE Digits(n \div 10) \o << DigitChars[(n % 10) + 1] >>

\* int(s) for a non-empty digit string
RECURSIVE ToInt(_)
ToInt(s) ==
  IF Len(s) = 0 THEN 0
  ELSE 10 * ToInt(SubSeq(s, 1, Len(s) - 1)) + DigitVal(s[Len(s)])

\* s < t in Python's string order
StrLess(s, t) ==
  LET shorter == IF Len(s) < Len(t) THEN Len(s) ELSE Len(t)
      diff == { i \in 1..shorter : s[i] # t[i] }
  IN  IF diff = {} THEN Len(s) < Len(t)
      ELSE LET k == CHOOSE i \in diff : \A j \in diff : i <= j
           IN  Ord(s[k]) < Ord(t[k])

StartsWithAt(s, p, pre) ==
  /\ p + Len(pre) - 1 <= Len(s)
  /\ \A i \in 1..Len(pre) : s[p + i - 1] = pre[i]

EndsWith(s, suf) ==
  /\ Len(suf) <= Len(s)
  /\ \A i \in 1..Len(suf) : s[Len(s) - Len(suf) + i] = suf[i]

\* length of the maximal run of digits of s that starts at position p
DigitRun(s, p) ==
  LET ends == { k \in 0..(Len(s) - p + 1) : \A i \in p..(p + k - 1) : IsDigit(s[i]) }
  IN  CHOOSE k \in ends : \A m \in ends : m <= k

\* sorted(xs, key=...): Python's stable sort; key[k] is the integer key of
\* xs[k]
InsertAfter(seq, cnt, x) ==
  SubSeq(seq, 1, cnt) \o << x >> \o SubSeq(seq, cnt + 1, Len(seq))

\* the first n elements of xs, sorted: xs[n] goes behind the elements
\* before it whose key is not greater
RECURSIVE SortedPrefix(_, _, _)
SortedPrefix(xs, key, n) ==
  IF n = 0 THEN << >>
  ELSE InsertAfter(SortedPrefix(xs, key, n - 1),
                   Cardinality({ j \in 1..(n - 1) : key[j] <= key[n] }),
                   xs[n])

SortedBy(xs, key) == SortedPrefix(xs, key, Len(xs))

\* sorted(xs) for strings: the key of a string is the number of strings of
\* xs below it in string order
SortedStrings(xs) ==
  SortedBy(xs, [ k \in 1..Len(xs) |->
                   Cardinality({ j \in 1..Len(xs) : StrLess(xs[j], xs[k]) }) ])

\* os.path.join(dir, name)
PathJoin(dir, name) == dir \o << "/" >> \o name

\* the orders os.listdir may return the names of a directory in: every
\* rotation of the names in ascending and in descending string order
Rotations(xs) ==
  { SubSeq(xs, r + 1, Len(xs)) \o SubSeq(xs, 1, r) : r \in 0..(Len(xs) - 1) }

RECURSIVE Reversed(_)
Reversed(xs) ==
  IF Len(xs) = 0 THEN << >> ELSE Append(Reversed(Tail(xs)), Head(xs))

RECURSIVE SetToSeq(_)
SetToSeq(S) ==
  IF S = {} THEN << >>
  ELSE LET x == CHOOSE y \in S : TRUE IN << x >> \o SetToSeq(S \ { x })

ListingOrders(S) ==
  LET asc == SortedStrings(SetToSeq(S))
  IN  IF S = {} THEN { << >> } ELSE Rotations(asc) \cup Rotations(Reversed(asc))

(***************************************************************************)
(* Paths and file names.                                                   *)
(***************************************************************************)
\* os.path.join(".", "Working_files", "temp_ebook")
ChaptersDirectory ==
  << ".", "/", "W", "o", "r", "k", "i", "n", "g", "_", "f", "i", "l", "e", "s",
     "/", "t", "e", "m", "p", "_", "e", "b", "o", "o", "k" >>

\* os.path.join(".", 'Chapter_wav_files')
ChapterWavFiles ==
  << ".", "/", "C", "h", "a", "p", "t", "e", "r", "_", "w", "a", "v", "_",
     "f", "i", "l", "e", "s" >>

ChapterPrefix == << "c", "h", "a", "p", "t", "e", "r", "_" >>

TxtSuffix == << ".", "t", "x", "t" >>

WavSuffix == << ".", "w", "a", "v" >>

\* f"chapter_{chapter_counter}.txt"
ChapterFileName(n) == ChapterPrefix \o Digits(n) \o TxtSuffix

\* f"audio_chapter_{chapter_num}.wav"
AudioFileName(n) ==
  << "a", "u", "d", "i", "o", "_" >> \o ChapterPrefix \o Digits(n) \o WavSuffix

\* the names of the files of directory dir in a path-keyed file table
ListDir(files, dir) ==
  { SubSeq(path, Len(dir) + 2, Len(path)) :
      path \in { q \in DOMAIN files : StartsWithAt(q, 1, dir \o << "/" >>) } }

\* re.search(r"chapter_(\d+)<dot>txt", name): the number matched by the
\* group, or -1 when there is no match.  With escaped = TRUE the dot is the
\* literal "\." of create_chapter_labeled_book.sort_key, with FALSE it is the
\* unescaped "." of convert_chapters_to_audio_espeak, which matches any
\* character but a newline.
ChapterRegex(name, escaped) ==
  LET dotOk(c) == IF escaped THEN c = "." ELSE c # "\n"
      \* the digit counts k for which the whole pattern matches at p
      fits(p) == { k \in 1..DigitRun(name, p + 8) :
                     /\ p + 8 + k <= Len(name)
                     /\ dotOk(name[p + 8 + k])
                     /\ StartsWithAt(name, p + 9 + k, << "t", "x", "t" >>) }
      starts == { p \in 1..Len(name) :
                    StartsWithAt(name, p, ChapterPrefix) /\ fits(p) # {} }
  IN  IF starts = {} THEN -1
      ELSE LET p == CHOOSE q \in starts : \A r \in starts : q <= r
               k == CHOOSE j \in fits(p) : \A m \in fits(p) : m <= j
           IN  ToInt(SubSeq(name, p + 8, p + 7 + k))

\* int(x.split('_')[1].split('.')[0]), the sort key of process_chapter_files
\* (for the names chapter_<N>.txt the directory holds)
SplitKey(x) ==
  LET us == { i \in 1..Len(x) : x[i] = "_" }
      u1 == CHOOSE i \in us : \A j \in us : i <= j
      stops == { i \in (u1 + 1)..Len(x) : x[i] \in { "_", "." } }
      stop == IF stops = {} THEN Len(x) + 1
              ELSE CHOOSE i \in stops : \A j \in stops : i <= j
  IN  ToInt(SubSeq(x, u1 + 1, stop - 1))

\* create_chapter_labeled_book.sort_key
TxtSortKey(filename) ==
  LET m == ChapterRegex(filename, TRUE) IN IF m # -1 THEN m ELSE 0

\* create_m4b_from_chapters.sort_key: the first number anywhere in the path
WavSortKey(chapter_file) ==
  LET ds == { i \in 1..Len(chapter_file) : IsDigit(chapter_file[i]) }
  IN  IF ds = {} THEN 0
      ELSE LET first == CHOOSE i \in ds : \A j \in ds : i <= j
           IN  ToInt(SubSeq(chapter_file, first,
                            first + DigitRun(chapter_file, first) - 1))

(***************************************************************************)
(* Text.                                                                   *)
(***************************************************************************)
\* the threshold of save_chapters_as_text
MergeThreshold == 2300

\* text.strip() is non-empty
StripNonEmpty(words) == \E i \in 1..Len(words) : ~IsSpace(words[i])

\* str.replace(old, ' ') for the two-character old = '--', left to right
RECURSIVE ReplaceDashes(_)
ReplaceDashes(s) ==
  IF Len(s) = 0 THEN << >>
  ELSE IF StartsWithAt(s, 1, << "-", "-" >>)
       THEN << " " >> \o ReplaceDashes(SubSeq(s, 3, Len(s)))
       ELSE << s[1] >> \o ReplaceDashes(SubSeq(s, 2, Len(s)))

\* str.replace(c, '')
Remove(s, c) == SelectSeq(s, LAMBDA x : x # c)

sanitize_sentence(sentence) ==
  Remove(Remove(ReplaceDashes(sentence), "\""), "'")

\* the kinds of document item: empty, whitespace only, one character below
\* the threshold, exactly at the threshold
LongItem == [ len |-> MergeThreshold, words |-> << "'", "c" >> ]

ItemKinds ==
  { [ len |-> 0, words |-> << >> ],
    [ len |-> 2, words |-> << " ", "\n" >> ],
    [ len |-> MergeThreshold - 1, words |-> << "a", "-", "-", "b" >> ],
    LongItem }

SeqsUpTo(S, n) == UNION { [1..k -> S] : k \in 0..n }

(***************************************************************************)
(* State.                                                                  *)
(***************************************************************************)
VARIABLES
  pc,                 \* the position of the request in the pipeline
  items,              \* the ITEM_DOCUMENT items of the book, in source order
  output_audio_dir,   \* the directory the chapter audio is written to
  chapters_dir_exists,\* Working_files/temp_ebook exists
  txt_files,          \* path -> content of a chapter text file: the
                      \*   positions of the items written to it, in order
  wav_files,          \* path -> waveform of a chapter audio file
  item_pos,           \* save_chapters_as_text: position of the loop
  previous_filename,  \* save_chapters_as_text: '' is << >>
  chapter_counter,    \* save_chapters_as_text
  csv_rows,           \* Other_book.csv: rows [sent, chapter]
  chapter_book,       \* Chapter_Book.txt: the chapter contents, in the order
                      \*   written, NEWCHAPTERABC between consecutive ones
  todo,               \* convert_chapters_to_audio_espeak: files still to visit
  chapter_num,        \* ... the chapter being converted
  sentences,          \* ... its sentences [sent, text]
  sent_pos,           \* ... position of the sentence loop
  combined_audio,     \* ... the chapter waveform built so far
  attempts,           \* ... synthesizer calls made for the current sentence
  success,            \* ... the flag of the current sentence
  temp_wav,           \* ... the temporary file of the current sentence
  attempted,          \* history: sentences the synthesizer was called for
  failed,             \* history: sentences whose last synthesizer call exited
                      \*   non-zero or left a zero-byte file
  chapter_files,      \* create_m4b_from_chapters: the sorted audio paths
  cover_image,        \* ... TRUE when a cover was extracted
  temp_files,         \* ... which of combined.wav, metadata.txt, cover exist
  combined_wav,       \* ... content of combined.wav
  metadata,           \* ... the [CHAPTER] entries of metadata.txt
  mux_calls,          \* create_m4b: the muxer calls made, [level, cmd, exit]
  output_m4b,         \* the file at the audiobook output path: << >> when
                      \*   absent, else << [audio, chapters, cover] >>
  result,             \* what convert_ebook_to_audio returned
  progress_log,       \* the milestones handed to the progress callback
  temp_epub,          \* Working_files/temp.epub exists
  cover_jpg,          \* the file at the cover path, <ebook path less its
                      \*   extension>.jpg: "absent", "caller" (it was there
                      \*   before the request) or "written" (by ebook-meta)
  served              \* the requests served before this one: the number
                      \*   of items of their books, in order

VARIABLES
  ebook_file,         \* app.py: TRUE when the request carries an ebook file
  output_format,      \* ... "wav", "mp3" or "ogg"
  embed_cover,        \* ... the cover check box
  installed,          \* ... the external commands found on the PATH
  command_runs,       \* ... TRUE when the executable 'command' can be run
  MUTAGEN_AVAILABLE,  \* ... the mutagen library was imported
  app_pc,             \* ... the position of the request
  temp_dir,           \* ... TRUE once the temporary directory was created
  txt_output,         \* ... the file at txt_output_path: "absent", "empty"
                      \*     or "text"
  audio_output,       \* ... the file at audio_output_path: "absent",
                      \*     "small" (below 1024 bytes) or "ok"
  cover_files,        \* ... the cover files that exist in the directory
  cover_extracted,    \* ...
  cover_image_path_final, \* ... "None" or the name of the cover file
  cover_output_path_temp, \* ...
  status_updates,     \* ...
  app_progress,       \* ... the milestones handed to the progress callback
  tool_runs,          \* history: the tools run to their end, in order,
                      \*     [command, exit, stderr, output]
  returned,           \* ... the value returned: [audio, cover, message, file]
  ps_speak,           \* ... the synthesizer process of the piped strategy
  ps_enc,             \* ... the encoder process (lame or oggenc)
  stdout_pipe,        \* ... chunks in the pipe from ps_speak to ps_enc
  stderr_pipe,        \* ... chunks in the pipe of ps_speak's stderr
  speak_stderr_bytes, \* ... chunks the driver read from ps_speak's stderr
  pair                \* two concurrent requests of gradio_launch.py: their
                      \*   positions and the directories they share

appInputs == << ebook_file, output_format, embed_cover, installed,
                command_runs, MUTAGEN_AVAILABLE >>

coverVars == << cover_files, cover_extracted, cover_image_path_final,
                cover_output_path_temp >>

pipeVars == << ps_speak, ps_enc, stdout_pipe, stderr_pipe, speak_stderr_bytes >>

appVars == << appInputs, app_pc, temp_dir, txt_output, audio_output, coverVars,
              status_updates, app_progress, tool_runs, returned, pipeVars >>

pairVars == << pair >>

VARIABLES
  pure                \* a function of the program applied on its own:
                      \*   [op, args, out], the texts given and returned

pureVars == << pure >>

\* the four values returned to the interface
Result(audio, cover, message, file) ==
  [ audio |-> audio, cover |-> cover, message |-> message, file |-> file ]

\* the text of the status box
Message(kind, command, exit, detail) ==
  [ kind |-> kind, command |-> command, exit |-> exit, detail |-> detail ]

NoResult == Result("None", "None", Message("", "", 0, << >>), "None")

NoSpeak ==
  [ state |-> "none", out_left |-> 0, err_left |-> 0, err_written |-> 0,
    returncode |-> 0 ]

NoEnc == [ state |-> "none", returncode |-> 0, stdout |-> << >>, stderr |-> << >> ]

\* the state of app.py's request from the creation of the temporary
\* directory on, before anything ran
AppFresh ==
  /\ temp_dir = FALSE
  /\ txt_output = "absent"
  /\ audio_output = "absent"
  /\ cover_files = {}
  /\ cover_extracted = FALSE
  /\ cover_image_path_final = "None"
  /\ cover_output_path_temp = "cover.jpg"
  /\ status_updates = << >>
  /\ app_progress = << >>
  /\ tool_runs = << >>
  /\ returned = NoResult
  /\ ps_speak = NoSpeak
  /\ ps_enc = NoEnc
  /\ stdout_pipe = 0
  /\ stderr_pipe = 0
  /\ speak_stderr_bytes = 0

\* no request was made of app.py
AppIdle ==
  /\ ebook_file = FALSE
  /\ output_format = "wav"
  /\ embed_cover = FALSE
  /\ installed = {}
  /\ command_runs = FALSE
  /\ MUTAGEN_AVAILABLE = FALSE
  /\ app_pc = "idle"
  /\ AppFresh

\* the two requests that run at the same time
Requests == { 1, 2 }

\* a request of the pair: the number of chapters of its book, its position,
\* chapter_counter, the chapter numbers still to synthesize, the chapters
\* of its audiobook as [n, by] (chapter number, request the text is of),
\* and whether no step of the other request fell between its steps
PairRequest(position, book_chapters) ==
  [ pc |-> position, chapters |-> book_chapters, chapter_counter |-> 0,
    todo |-> << >>, audiobook |-> << >>, alone |-> TRUE ]

\* the pair with both requests at one position, the shared directories
\* absent
PairAt(position, first_chapters, second_chapters) ==
  [ req |-> << PairRequest(position, first_chapters),
               PairRequest(position, second_chapters) >>,
    temp_ebook |-> FALSE,    \* ./Working_files/temp_ebook exists
    chapter_txt |-> {},      \* its chapter files, [n, by]
    audio_dir |-> FALSE,     \* ./Chapter_wav_files exists
    chapter_wav |-> {},      \* its chapter audio files, [n, by]
    combined |-> << >> ]     \* the chapters in <tmp>/combined.wav

PairIdle == pair = PairAt("idle", 0, 0)

\* no function is applied on its own
PureIdle == pure = [ op |-> "idle", args |-> << >>, out |-> << >> ]

segVars == << item_pos, previous_filename, chapter_counter >>

flatVars == << csv_rows, chapter_book >>

synthVars == << todo, chapter_num, sentences, sent_pos, combined_audio,
                attempts, success, temp_wav, attempted, failed >>

m4bVars == << chapter_files, cover_image, temp_files, combined_wav, metadata,
              mux_calls, output_m4b >>

gradioVars == << pc, items, output_audio_dir, chapters_dir_exists, txt_files,
                 wav_files, segVars, flatVars, synthVars, m4bVars, result,
                 progress_log, temp_epub, cover_jpg, served >>

vars == << gradioVars, appVars, pairVars, pureVars >>

NoFiles == [ path \in {} |-> << >> ]

NoTempWav == [ size |-> 0, frames |-> 0 ]

\* a chapter text file a previous request may have left behind
StaleFiles ==
  { NoFiles,
    [ path \in { PathJoin(ChaptersDirectory, ChapterFileName(7)) } |-> << 1 >> ] }

GradioInitWith(books, dirs, stale, covers) ==
  /\ pc = "wipe"
  /\ cover_jpg \in covers
  /\ items \in books
  /\ output_audio_dir \in dirs
  /\ txt_files \in stale
  /\ chapters_dir_exists = (txt_files # NoFiles)
  /\ temp_epub = (txt_files # NoFiles)
  /\ progress_log = << >>
  /\ served = << >>
  /\ wav_files = NoFiles
  /\ item_pos = 1
  /\ previous_filename = << >>
  /\ chapter_counter = 0
  /\ csv_rows = << >>
  /\ chapter_book = << >>
  /\ todo = << >>
  /\ chapter_num = 0
  /\ sentences = << >>
  /\ sent_pos = 1
  /\ combined_audio = << >>
  /\ attempts = << >>
  /\ success = FALSE
  /\ temp_wav = NoTempWav
  /\ attempted = {}
  /\ failed = {}
  /\ chapter_files = << >>
  /\ cover_image = FALSE
  /\ temp_files = {}
  /\ combined_wav = << >>
  /\ metadata = << >>
  /\ mux_calls = << >>
  /\ output_m4b = << >>
  /\ result = "none"

\* no file stands at the cover path
GradioInit(books, dirs, stale) ==
  GradioInitWith(books, dirs, stale, { "absent" })

InitWith(books, dirs) ==
  /\ GradioInit(books, dirs, StaleFiles)
  /\ AppIdle
  /\ PairIdle
  /\ PureIdle

Init == InitWith(SeqsUpTo(ItemKinds, MaxItems), { ChapterWavFiles })

\* Wipe that leaves the directory of the chapter audio alone
Wipe_AudioKept ==
  /\ pc = "wipe"
  /\ txt_files' = NoFiles
  /\ chapters_dir_exists' = FALSE
  /\ temp_epub' = FALSE
  /\ csv_rows' = << >>
  /\ chapter_book' = << >>
  /\ progress_log' = Append(progress_log, "Creating chapter-labeled book")
  /\ pc' = "normalize"
  /\ UNCHANGED << appVars, pairVars, pureVars, cover_jpg, served, items,
                  output_audio_dir, wav_files, segVars, synthVars, m4bVars,
                  result >>

(***************************************************************************)
(* convert_ebook_to_audio, lines 318-324: both directories are removed and *)
(* the first milestone is reported.                                        *)
(***************************************************************************)
Wipe ==
  /\ pc = "wipe"
  /\ txt_files' = NoFiles
  /\ chapters_dir_exists' = FALSE
  /\ wav_files' = NoFiles
  /\ temp_epub' = FALSE
  /\ csv_rows' = << >>
  /\ chapter_book' = << >>
  /\ progress_log' = Append(progress_log, "Creating chapter-labeled book")
  /\ pc' = "normalize"
  /\ UNCHANGED << appVars, pairVars, pureVars, cover_jpg, served, items,
                  output_audio_dir, segVars, synthVars, m4bVars, result >>

(***************************************************************************)
(* create_chapter_labeled_book, lines 194-201 and 166-173: a temp.epub     *)
(* left behind is removed, ebook-convert runs; save_chapters_as_text       *)
(* starts only when it exited with 0.                                      *)
(***************************************************************************)
ConvertToEpub ==
  /\ pc = "normalize"
  /\ \E exit \in { 0, 1 } :
       IF exit = 0
       THEN /\ chapters_dir_exists' = TRUE
            /\ temp_epub' = TRUE
            /\ pc' = IF Len(items) = 0 THEN "csv" ELSE "segment"
       ELSE /\ chapters_dir_exists' = chapters_dir_exists
            /\ temp_epub' = FALSE
            /\ pc' = "csv"
  /\ item_pos' = 1
  /\ previous_filename' = << >>
  /\ chapter_counter' = 0
  /\ UNCHANGED << appVars, pairVars, pureVars, cover_jpg, served,
                  progress_log, items, output_audio_dir, txt_files, wav_files,
                  flatVars, synthVars, m4bVars, result >>

(***************************************************************************)
(* save_chapters_as_text, lines 175-189: one iteration of the loop.        *)
(***************************************************************************)
\* ShouldAppend with the comparison off by one
ShouldAppend_AtThreshold(text_len, prev) ==
  text_len <= MergeThreshold /\ prev # << >>

\* ShouldAppend without the length test
ShouldAppend_AnyLength(text_len, prev) == prev # << >>

\* line 181: the item is appended to the previous chapter
ShouldAppend(text_len, prev) == text_len < MergeThreshold /\ prev # << >>

\* NewChapterPath that is the path of the first chapter every time
NewChapterPath_First(counter) ==
  PathJoin(ChaptersDirectory, ChapterFileName(0))

\* NewChapterPath with the counter incremented before the name is built
NewChapterPath_CountFirst(counter) ==
  PathJoin(ChaptersDirectory, ChapterFileName(counter + 1))

\* line 185: the chapter file started for the current counter
NewChapterPath(counter) == PathJoin(ChaptersDirectory, ChapterFileName(counter))

SaveChapterItem ==
  /\ pc = "segment"
  /\ item_pos <= Len(items)
  /\ LET text == items[item_pos] IN
       IF StripNonEmpty(text.words)
       THEN IF ShouldAppend(text.len, previous_filename)
            THEN /\ txt_files' = [ txt_files EXCEPT ![previous_filename] =
                                     @ \o << item_pos >> ]
                 /\ UNCHANGED << previous_filename, chapter_counter >>
            ELSE /\ previous_filename' = NewChapterPath(chapter_counter)
                 /\ chapter_counter' = chapter_counter + 1
                 /\ txt_files' =
                      [ path \in DOMAIN txt_files \cup { previous_filename' } |->
                          IF path = previous_filename' THEN << item_pos >>
                          ELSE txt_files[path] ]
       ELSE UNCHANGED << txt_files, previous_filename, chapter_counter >>
  /\ item_pos' = item_pos + 1
  /\ pc' = IF item_pos = Len(items) THEN "csv" ELSE "segment"
  /\ UNCHANGED << appVars, pairVars, pureVars, cover_jpg, served,
                  progress_log, temp_epub, items, output_audio_dir,
                  chapters_dir_exists, wav_files, flatVars, synthVars,
                  m4bVars, result >>

(***************************************************************************)
(* process_chapter_files, lines 205-232.  os.listdir raises when           *)
(* ebook-convert failed and the chapter directory was never created; the   *)
(* exception leaves convert_ebook_to_audio.                                *)
(***************************************************************************)
\* nltk.tokenize.sent_tokenize(text) of a chapter: one sentence per item
Tokenize(content) ==
  [ k \in 1..Len(content) |-> [ sent |-> content[k],
                                text |-> items[content[k]].words ] ]

RECURSIVE Flatten(_)
Flatten(seqs) ==
  IF Len(seqs) = 0 THEN << >> ELSE Head(seqs) \o Flatten(Tail(seqs))

CsvRowsOf(filename) ==
  IF StartsWithAt(filename, 1, ChapterPrefix) /\ EndsWith(filename, TxtSuffix)
  THEN LET content == txt_files[PathJoin(ChaptersDirectory, filename)]
       IN  [ k \in 1..Len(content) |-> [ sent |-> content[k],
                                         chapter |-> SplitKey(filename) ] ]
  ELSE << >>

\* ProcessChapterFiles that goes on when the directory is missing
ProcessChapterFiles_NoListing ==
  /\ pc = "csv"
  /\ IF chapters_dir_exists
     THEN /\ \E listing \in ListingOrders(ListDir(txt_files, ChaptersDirectory)) :
               LET sorted_files == SortedBy(listing, [ k \in 1..Len(listing) |-> SplitKey(listing[k]) ])
               IN  csv_rows' = Flatten([ k \in 1..Len(sorted_files) |->
                                           CsvRowsOf(sorted_files[k]) ])
          /\ pc' = "flatten"
     ELSE /\ csv_rows' = << >>
          /\ pc' = "flatten"
  /\ UNCHANGED << appVars, pairVars, pureVars, cover_jpg, served,
                  progress_log, temp_epub, items, output_audio_dir,
                  chapters_dir_exists, txt_files, wav_files, segVars,
                  chapter_book, synthVars, m4bVars, result >>

\* lines 205-232: os.listdir raises when the directory is missing
ProcessChapterFiles ==
  /\ pc = "csv"
  /\ IF chapters_dir_exists
     THEN /\ \E listing \in ListingOrders(ListDir(txt_files, ChaptersDirectory)) :
               LET sorted_files == SortedBy(listing, [ k \in 1..Len(listing) |-> SplitKey(listing[k]) ])
               IN  csv_rows' = Flatten([ k \in 1..Len(sorted_files) |->
                                           CsvRowsOf(sorted_files[k]) ])
          /\ pc' = "flatten"
     ELSE /\ csv_rows' = << >>
          /\ pc' = "crashed"
  /\ UNCHANGED << appVars, pairVars, pureVars, cover_jpg, served,
                  progress_log, temp_epub, items, output_audio_dir,
                  chapters_dir_exists, txt_files, wav_files, segVars,
                  chapter_book, synthVars, m4bVars, result >>

(***************************************************************************)
(* combine_chapters, lines 238-254.                                        *)
(***************************************************************************)
CombineChapters ==
  /\ pc = "flatten"
  /\ \E listing \in ListingOrders(ListDir(txt_files, ChaptersDirectory)) :
       LET files == SelectSeq(listing, LAMBDA f : EndsWith(f, TxtSuffix))
           sorted_files == SortedBy(files, [ k \in 1..Len(files) |-> TxtSortKey(files[k]) ])
       IN  chapter_book' = [ k \in 1..Len(sorted_files) |->
                               txt_files[PathJoin(ChaptersDirectory, sorted_files[k])] ]
  /\ pc' = "synth_list"
  /\ UNCHANGED << appVars, pairVars, pureVars, cover_jpg, served,
                  progress_log, temp_epub, items, output_audio_dir,
                  chapters_dir_exists, txt_files, wav_files, segVars,
                  csv_rows, synthVars, m4bVars, result >>

(***************************************************************************)
(* convert_chapters_to_audio_espeak, lines 263-309.                        *)
(***************************************************************************)
\* the files espeak-ng may leave at the -w path when it exits with 0: a
\* zero-byte file, or a wave file of 1..MaxFrames frames (44-byte header,
\* two bytes a frame)
WrittenWavs ==
  { NoTempWav } \cup { [ size |-> 44 + 2 * f, frames |-> f ] : f \in 1..MaxFrames }

\* lines 329-334 and 267: the second milestone, sorted(os.listdir(chapters_dir))
ListChapters ==
  /\ pc = "synth_list"
  /\ \E listing \in ListingOrders(ListDir(txt_files, ChaptersDirectory)) :
       todo' = SortedStrings(listing)
  /\ progress_log' = Append(progress_log, "Converting chapters to audio")
  /\ pc' = IF todo' = << >> THEN "m4b_list" ELSE "synth_chapter"
  /\ UNCHANGED << appVars, pairVars, pureVars, cover_jpg, served, temp_epub,
                  items, output_audio_dir, chapters_dir_exists, txt_files,
                  wav_files, segVars, flatVars, chapter_num, sentences,
                  sent_pos, combined_audio, attempts, success, temp_wav,
                  attempted, failed, m4bVars, result >>

\* lines 268-283: the next file of the loop is matched, read and tokenized
StartChapter ==
  /\ pc = "synth_chapter"
  /\ todo # << >>
  /\ LET chapter_file == Head(todo)
         match == ChapterRegex(chapter_file, FALSE)
     IN  IF EndsWith(chapter_file, TxtSuffix) /\ match # -1
         THEN /\ chapter_num' = match
              /\ sentences' = Tokenize(txt_files[PathJoin(ChaptersDirectory, chapter_file)])
              /\ combined_audio' = << >>
              /\ sent_pos' = 1
              /\ pc' = IF sentences' = << >> THEN "synth_export" ELSE "synth_first"
         ELSE /\ UNCHANGED << chapter_num, sentences, combined_audio, sent_pos >>
              /\ pc' = IF Tail(todo) = << >> THEN "m4b_list" ELSE "synth_chapter"
  /\ todo' = Tail(todo)
  /\ UNCHANGED << appVars, pairVars, pureVars, cover_jpg, served,
                  progress_log, temp_epub, items, output_audio_dir,
                  chapters_dir_exists, txt_files, wav_files, segVars,
                  flatVars, attempts, success, temp_wav, attempted, failed,
                  m4bVars, result >>

\* lines 286-291: the first call of espeak-ng, with the sentence as it is
SynthFirst(exits, wavs) ==
  /\ pc = "synth_first"
  /\ \E exit \in exits, written \in wavs :
       /\ attempts' = Append(attempts, [ text |-> sentences[sent_pos].text,
                                         exit |-> exit ])
       /\ success' = (exit = 0)
       /\ temp_wav' = IF exit = 0 THEN written ELSE NoTempWav
       /\ pc' = IF exit = 0 THEN "synth_check" ELSE "synth_retry"
  /\ attempted' = attempted \cup { sentences[sent_pos].sent }
  /\ UNCHANGED << appVars, pairVars, pureVars, cover_jpg, served,
                  progress_log, temp_epub, items, output_audio_dir,
                  chapters_dir_exists, txt_files, wav_files, segVars,
                  flatVars, todo, chapter_num, sentences, sent_pos,
                  combined_audio, failed, m4bVars, result >>

\* RetryText with the sentence passed on as it is
RetryText_Unsanitized(sentence) == sentence

\* line 293: the text of the second call
RetryText(sentence) == sanitize_sentence(sentence)

\* lines 291-300: the first call failed; one more call
SynthRetry(exits, wavs) ==
  /\ pc = "synth_retry"
  /\ \E exit \in exits, written \in wavs :
       /\ attempts' = Append(attempts, [ text |-> RetryText(sentences[sent_pos].text),
                                         exit |-> exit ])
       /\ success' = (exit = 0)
       /\ temp_wav' = IF exit = 0 THEN written ELSE NoTempWav
  /\ pc' = "synth_check"
  /\ UNCHANGED << appVars, pairVars, pureVars, cover_jpg, served,
                  progress_log, temp_epub, items, output_audio_dir,
                  chapters_dir_exists, txt_files, wav_files, segVars,
                  flatVars, todo, chapter_num, sentences, sent_pos,
                  combined_audio, attempted, failed, m4bVars, result >>

\* AfterSentence with a sentence that was left out ending the chapter
AfterSentence_Abort(ok, pos, n) ==
  IF ok /\ pos < n THEN "synth_first" ELSE "synth_export"

\* where the loop goes after a sentence was kept (ok) or left out
AfterSentence(ok, pos, n) == IF pos < n THEN "synth_first" ELSE "synth_export"

\* KeepSentence without the test of the file size
KeepSentence_AnySize(ok, size) == ok

\* line 302: the sentence's audio is kept
KeepSentence(ok, size) == ok /\ size > 0

\* FinishSentence that puts the sentence's audio before the audio so far
FinishSentence_Prepend ==
  /\ pc = "synth_check"
  /\ LET keep == KeepSentence(success, temp_wav.size) IN
       /\ combined_audio' =
            IF keep
            THEN << [ sent |-> sentences[sent_pos].sent,
                      frames |-> temp_wav.frames ] >> \o combined_audio
            ELSE combined_audio
       /\ pc' = AfterSentence(keep, sent_pos, Len(sentences))
  /\ failed' = IF attempts[Len(attempts)].exit # 0 \/ temp_wav.size = 0
               THEN failed \cup { sentences[sent_pos].sent }
               ELSE failed
  /\ temp_wav' = NoTempWav
  /\ attempts' = << >>
  /\ success' = FALSE
  /\ sent_pos' = sent_pos + 1
  /\ UNCHANGED << appVars, pairVars, pureVars, cover_jpg, served,
                  progress_log, temp_epub, items, output_audio_dir,
                  chapters_dir_exists, txt_files, wav_files, segVars,
                  flatVars, todo, chapter_num, sentences, attempted, m4bVars,
                  result >>

\* lines 302-306: the sentence's audio is appended or the sentence left out,
\* and the temporary file removed
FinishSentence ==
  /\ pc = "synth_check"
  /\ LET keep == KeepSentence(success, temp_wav.size) IN
       /\ combined_audio' =
            IF keep
            THEN Append(combined_audio, [ sent |-> sentences[sent_pos].sent,
                                          frames |-> temp_wav.frames ])
            ELSE combined_audio
       /\ pc' = AfterSentence(keep, sent_pos, Len(sentences))
  /\ failed' = IF attempts[Len(attempts)].exit # 0 \/ temp_wav.size = 0
               THEN failed \cup { sentences[sent_pos].sent }
               ELSE failed
  /\ temp_wav' = NoTempWav
  /\ attempts' = << >>
  /\ success' = FALSE
  /\ sent_pos' = sent_pos + 1
  /\ UNCHANGED << appVars, pairVars, pureVars, cover_jpg, served,
                  progress_log, temp_epub, items, output_audio_dir,
                  chapters_dir_exists, txt_files, wav_files, segVars,
                  flatVars, todo, chapter_num, sentences, attempted, m4bVars,
                  result >>

\* lines 277-278
AudioPath(dir, num) == PathJoin(dir, AudioFileName(num))

\* line 308: the chapter waveform is exported
ExportChapter ==
  /\ pc = "synth_export"
  /\ LET output_file_path == AudioPath(output_audio_dir, chapter_num)
     IN  wav_files' = [ path \in DOMAIN wav_files \cup { output_file_path } |->
                          IF path = output_file_path THEN combined_audio
                          ELSE wav_files[path] ]
  /\ pc' = IF todo = << >> THEN "m4b_list" ELSE "synth_chapter"
  /\ UNCHANGED << appVars, pairVars, pureVars, cover_jpg, served,
                  progress_log, temp_epub, items, output_audio_dir,
                  chapters_dir_exists, txt_files, segVars, flatVars,
                  synthVars, m4bVars, result >>

(***************************************************************************)
(* create_m4b_from_chapters, lines 51-148.                                 *)
(***************************************************************************)
\* lines 336-341 and 132-137: the third milestone; the chapter audio is
\* listed and sorted, ebook-meta is asked
\* for the cover (cover_image is None when it fails or writes no file)
ListAudio ==
  /\ pc = "m4b_list"
  /\ \E listing \in ListingOrders(ListDir(wav_files, output_audio_dir)) :
       LET paths == [ k \in 1..Len(listing) |-> PathJoin(output_audio_dir, listing[k]) ]
           wavs == SelectSeq(paths, LAMBDA f : EndsWith(f, WavSuffix))
       IN  chapter_files' = SortedBy(wavs, [ k \in 1..Len(wavs) |-> WavSortKey(wavs[k]) ])
  /\ \E exit \in { 0, 1 }, writes \in BOOLEAN :
       \* lines 56-64: ebook-meta writes the cover of the book, if it has
       \* one, at the cover path; a file found there is taken for the cover
       /\ cover_jpg' = IF exit = 0 /\ writes THEN "written" ELSE cover_jpg
       /\ cover_image' = (exit = 0 /\ cover_jpg' # "absent")
       /\ temp_files' = IF cover_image' THEN { "cover.jpg" } ELSE {}
  /\ progress_log' = Append(progress_log, "Creating M4B from chapters")
  /\ pc' = "m4b_combine"
  /\ UNCHANGED << appVars, pairVars, pureVars, served, temp_epub, items,
                  output_audio_dir, chapters_dir_exists, txt_files, wav_files,
                  segVars, flatVars, synthVars, combined_wav, metadata,
                  mux_calls, output_m4b, result >>

\* lines 66-73
combine_wav_files(files) == Flatten([ k \in 1..Len(files) |-> wav_files[files[k]] ])

CombineWavFiles ==
  /\ pc = "m4b_combine"
  /\ combined_wav' = combine_wav_files(chapter_files)
  /\ temp_files' = temp_files \cup { "combined.wav" }
  /\ pc' = "m4b_metadata"
  /\ UNCHANGED << appVars, pairVars, pureVars, cover_jpg, served,
                  progress_log, temp_epub, items, output_audio_dir,
                  chapters_dir_exists, txt_files, wav_files, segVars,
                  flatVars, synthVars, chapter_files, cover_image, metadata,
                  mux_calls, output_m4b, result >>

RECURSIVE FrameCount(_)
FrameCount(audio) ==
  IF Len(audio) = 0 THEN 0 ELSE Head(audio).frames + FrameCount(Tail(audio))

\* Python's round(n / d): to the nearest integer, a tie to the even one
RoundHalfEven(n, d) ==
  LET q == n \div d
      r == n % d
  IN  IF 2 * r < d THEN q
      ELSE IF 2 * r > d THEN q + 1
      ELSE IF q % 2 = 0 THEN q ELSE q + 1

\* len(AudioSegment): the length in milliseconds, rounded
DurationMs(audio) == RoundHalfEven(1000 * FrameCount(audio), FrameRate)

\* lines 78-83: the value of start_time when chapter number index (from 1)
\* is reached
RECURSIVE StartTime(_, _)
StartTime(files, index) ==
  IF index = 1 THEN 0
  ELSE StartTime(files, index - 1) + DurationMs(wav_files[files[index - 1]])

\* ChapterEntry with END written without the running start_time
ChapterEntry_NoCarry(files, index) ==
  [ start |-> StartTime(files, index),
    end   |-> DurationMs(wav_files[files[index]]),
    title |-> index ]

\* lines 81-82: the entry written for chapter number index (from 1)
ChapterEntry(files, index) ==
  [ start |-> StartTime(files, index),
    end   |-> StartTime(files, index) + DurationMs(wav_files[files[index]]),
    title |-> index ]

generate_ffmpeg_metadata(files) ==
  [ index \in 1..Len(files) |-> ChapterEntry(files, index) ]

GenerateFfmpegMetadata ==
  /\ pc = "m4b_metadata"
  /\ metadata' = generate_ffmpeg_metadata(chapter_files)
  /\ temp_files' = temp_files \cup { "metadata.txt" }
  /\ pc' = "mux1"
  /\ UNCHANGED << appVars, pairVars, pureVars, cover_jpg, served,
                  progress_log, temp_epub, items, output_audio_dir,
                  chapters_dir_exists, txt_files, wav_files, segVars,
                  flatVars, synthVars, chapter_files, cover_image,
                  combined_wav, mux_calls, output_m4b, result >>

(***************************************************************************)
(* create_m4b, lines 85-129.  A muxer command is the argument list the     *)
(* code builds; the muxer's exit status is the environment's.              *)
(***************************************************************************)
CoverArgs(cover) ==
  IF cover
  THEN << "-i", "cover.jpg", "-map", "0:a", "-map", "2:v",
          "-c:v", "png", "-disposition:v", "attached_pic" >>
  ELSE << "-map", "0:a" >>

\* lines 88-96
Level1Cmd(cover) ==
  << "ffmpeg", "-i", "combined.wav", "-i", "metadata.txt" >> \o CoverArgs(cover)
    \o << "-map_metadata", "1", "-c:a", "aac", "-b:a", "192k" >> \o << "output.m4b" >>

\* lines 103-111
Level2Cmd(cover) ==
  << "ffmpeg", "-i", "combined.wav" >> \o CoverArgs(cover)
    \o << "-c:a", "aac", "-b:a", "192k" >>

\* lines 117-119
Level3Cmd ==
  << "ffmpeg", "-i", "combined.wav" >> \o << "-map", "0:a" >>
    \o << "-c:a", "aac", "-b:a", "192k" >>

\* line 125
Level4Cmd ==
  << "ffmpeg", "-i", "combined.wav", "-c:a", "aac", "-b:a", "192k", "output.m4b" >>

\* the options of the commands above; each takes one value
FfmpegOptions ==
  { "-i", "-map", "-c:v", "-disposition:v", "-map_metadata", "-c:a", "-b:a" }

\* the output files a command names: its arguments that are neither an
\* option nor the value of one
OutputsOf(cmd) ==
  { cmd[k] : k \in { j \in 2..Len(cmd) :
                       cmd[j] \notin FfmpegOptions /\ cmd[j - 1] \notin FfmpegOptions } }

HasArg(cmd, arg) == \E k \in 1..Len(cmd) : cmd[k] = arg

\* the file at the output path after the muxer ran cmd and exited with exit
Muxed(cmd, exit) ==
  IF exit = 0 /\ "output.m4b" \in OutputsOf(cmd)
  THEN << [ audio    |-> combined_wav,
            chapters |-> IF HasArg(cmd, "-map_metadata") THEN metadata ELSE << >>,
            cover    |-> HasArg(cmd, "cover.jpg") ] >>
  ELSE output_m4b

\* where create_m4b goes after the call of a level returned
AfterLevel(level, exit) ==
  CASE level = 1 -> IF exit = 0 THEN "m4b_cleanup" ELSE "mux2"
    [] level = 2 -> IF exit = 0 THEN "m4b_cleanup" ELSE "mux3"
    [] level = 3 -> "mux4"
    [] level = 4 -> "m4b_cleanup"

RunMuxer(level, cmd) ==
  \E exit \in { 0, 1 } :
    /\ mux_calls' = Append(mux_calls, [ level |-> level, cmd |-> cmd, exit |-> exit ])
    /\ output_m4b' = Muxed(cmd, exit)
    /\ pc' = AfterLevel(level, exit)
    /\ UNCHANGED << appVars, pairVars, pureVars, cover_jpg, served,
                    progress_log, temp_epub, items, output_audio_dir,
                    chapters_dir_exists, txt_files, wav_files, segVars,
                    flatVars, synthVars, chapter_files, cover_image,
                    temp_files, combined_wav, metadata, result >>

\* lines 98-99
MuxLevel1 == pc = "mux1" /\ RunMuxer(1, Level1Cmd(cover_image))

\* lines 100-113
MuxLevel2 == pc = "mux2" /\ RunMuxer(2, Level2Cmd(cover_image))

\* lines 114-123
MuxLevel3 == pc = "mux3" /\ RunMuxer(3, Level3Cmd)

\* lines 124-128
MuxLevel4 == pc = "mux4" /\ RunMuxer(4, Level4Cmd)

\* lines 143-148: the temporary files are removed
Cleanup ==
  /\ pc = "m4b_cleanup"
  /\ temp_files' = {}
  /\ cover_jpg' = IF cover_image THEN "absent" ELSE cover_jpg
  /\ pc' = "return"
  /\ UNCHANGED << appVars, pairVars, pureVars, served, progress_log,
                  temp_epub, items, output_audio_dir, chapters_dir_exists,
                  txt_files, wav_files, segVars, flatVars, synthVars,
                  chapter_files, cover_image, combined_wav, metadata,
                  mux_calls, output_m4b, result >>

\* convert_ebook_to_audio, lines 343-351
Return ==
  /\ pc = "return"
  /\ result' = "Audiobook created"
  /\ progress_log' = Append(progress_log, "Conversion complete")
  /\ pc' = "done"
  /\ UNCHANGED << appVars, pairVars, pureVars, cover_jpg, served, temp_epub,
                  items, output_audio_dir, chapters_dir_exists, txt_files,
                  wav_files, segVars, flatVars, synthVars, m4bVars >>

(***************************************************************************)
(* Specifications.                                                         *)
(***************************************************************************)
Next ==
  \/ Wipe
  \/ ConvertToEpub
  \/ SaveChapterItem
  \/ ProcessChapterFiles
  \/ CombineChapters
  \/ ListChapters
  \/ StartChapter
  \/ SynthFirst({ 0, 1 }, WrittenWavs)
  \/ SynthRetry({ 0, 1 }, WrittenWavs)
  \/ FinishSentence
  \/ ExportChapter
  \/ ListAudio
  \/ CombineWavFiles
  \/ GenerateFfmpegMetadata
  \/ MuxLevel1
  \/ MuxLevel2
  \/ MuxLevel3
  \/ MuxLevel4
  \/ Cleanup
  \/ Return

Spec == Init /\ [][Next]_vars

(***************************************************************************)
(* The same pipeline for books of up to MaxChapters chapters, one item a   *)
(* chapter, with the three stages called with a directory of the caller's  *)
(* choice for the chapter audio and a synthesizer that does not fail.      *)
(***************************************************************************)
\* "./out1"
OtherAudioDir == << ".", "/", "o", "u", "t", "1" >>

InitSort ==
  InitWith({ [ k \in 1..n |-> LongItem ] : n \in 0..MaxChapters },
           { ChapterWavFiles, OtherAudioDir })

NextSort ==
  \/ Wipe
  \/ ConvertToEpub
  \/ SaveChapterItem
  \/ ProcessChapterFiles
  \/ CombineChapters
  \/ ListChapters
  \/ StartChapter
  \/ SynthFirst({ 0 }, { [ size |-> 46, frames |-> 1 ] })
  \/ FinishSentence
  \/ ExportChapter
  \/ ListAudio
  \/ CombineWavFiles
  \/ GenerateFfmpegMetadata
  \/ MuxLevel1
  \/ MuxLevel2
  \/ MuxLevel3
  \/ MuxLevel4
  \/ Cleanup
  \/ Return

SpecSort == InitSort /\ [][NextSort]_vars

(***************************************************************************)
(* Requests served one after another: when a request has ended the         *)
(* interface calls convert_ebook_to_audio again, with another book.  The   *)
(* files the earlier request left are still there; its local variables    *)
(* are not.  The new book may have the file name of the earlier one, and   *)
(* then the audiobook path is the same.                                    *)
(***************************************************************************)
MaxRequests == 2

MaxSeqChapters == 3

\* books of chapters 0..MaxSeqChapters, one item a chapter
SeqBooks == { [ k \in 1..n |-> LongItem ] : n \in 0..MaxSeqChapters }

NextRequest(books) ==
  /\ pc \in { "done", "crashed" }
  /\ Len(served) + 1 < MaxRequests
  /\ served' = Append(served, Len(items))
  /\ items' \in books
  /\ pc' = "wipe"
  /\ result' = "none"
  /\ progress_log' = << >>
  /\ item_pos' = 1
  /\ previous_filename' = << >>
  /\ chapter_counter' = 0
  /\ todo' = << >>
  /\ chapter_num' = 0
  /\ sentences' = << >>
  /\ sent_pos' = 1
  /\ combined_audio' = << >>
  /\ attempts' = << >>
  /\ success' = FALSE
  /\ temp_wav' = NoTempWav
  /\ attempted' = {}
  /\ failed' = {}
  /\ chapter_files' = << >>
  /\ cover_image' = FALSE
  /\ cover_jpg' = "absent"
  /\ mux_calls' = << >>
  /\ \E same_name \in BOOLEAN :
       output_m4b' = IF same_name THEN output_m4b ELSE << >>
  /\ UNCHANGED << appVars, pairVars, pureVars, output_audio_dir,
                  chapters_dir_exists, txt_files, wav_files, temp_epub,
                  flatVars, temp_files, combined_wav, metadata >>

InitSeq ==
  /\ GradioInit(SeqBooks, { ChapterWavFiles }, { NoFiles })
  /\ AppIdle
  /\ PairIdle
  /\ PureIdle

NextSeq ==
  \/ Wipe
  \/ ConvertToEpub
  \/ SaveChapterItem
  \/ ProcessChapterFiles
  \/ CombineChapters
  \/ ListChapters
  \/ StartChapter
  \/ SynthFirst({ 0 }, { [ size |-> 46, frames |-> 1 ] })
  \/ FinishSentence
  \/ ExportChapter
  \/ ListAudio
  \/ CombineWavFiles
  \/ GenerateFfmpegMetadata
  \/ MuxLevel1
  \/ MuxLevel2
  \/ MuxLevel3
  \/ MuxLevel4
  \/ Cleanup
  \/ Return
  \/ NextRequest(SeqBooks)

SpecSeq == InitSeq /\ [][NextSeq]_vars

(***************************************************************************)
(* app.py: convert_ebook_to_audio, lines 94-541.  One request: the         *)
(* commands are checked, the cover is extracted, the ebook is converted    *)
(* to text, the text is spoken (to a wave file, or through a pipe into     *)
(* lame or oggenc), the cover is embedded and the paths are returned.      *)
(* What a tool does (exit status, diagnostic text, the file it leaves) is  *)
(* the environment's choice.  Text on a stream is a sequence of strings,   *)
(* << >> being the empty text.                                             *)
(***************************************************************************)
MaxChunks == 2

PipeCapacity == 1

Tools == { "ebook-convert", "ebook-meta", "espeak-ng", "lame", "oggenc" }

GradioIdle == GradioInit({ << >> }, { ChapterWavFiles }, { NoFiles })

AppInit ==
  /\ ebook_file \in BOOLEAN
  /\ output_format \in { "wav", "mp3", "ogg" }
  /\ embed_cover \in BOOLEAN
  /\ installed \in SUBSET Tools
  /\ command_runs \in BOOLEAN
  /\ MUTAGEN_AVAILABLE \in BOOLEAN
  /\ app_pc = "start"
  /\ AppFresh

InitApp == GradioIdle /\ PairIdle /\ PureIdle /\ AppInit

\* lines 29-47: 'command -v <command>' is run; the check fails when the
\* executable 'command' cannot be run or exits non-zero
check_command(command) == command_runs /\ command \in installed

\* Missing that stops at the first command found missing
Missing_FirstOnly(calibre_convert_ok, calibre_meta_ok, espeak_ok, lame_ok, oggenc_ok) ==
  IF ~calibre_convert_ok THEN << "Calibre ('ebook-convert')" >>
  ELSE IF ~calibre_meta_ok /\ embed_cover
       THEN << "Calibre ('ebook-meta' for cover art)" >>
  ELSE IF ~espeak_ok THEN << "espeak-ng" >>
  ELSE IF ~lame_ok /\ output_format = "mp3" THEN << "LAME (for MP3)" >>
  ELSE IF ~oggenc_ok /\ output_format = "ogg" THEN << "oggenc (for OGG)" >>
  ELSE << >>

\* lines 108-113
Missing(calibre_convert_ok, calibre_meta_ok, espeak_ok, lame_ok, oggenc_ok) ==
  (IF ~calibre_convert_ok THEN << "Calibre ('ebook-convert')" >> ELSE << >>)
  \o (IF ~calibre_meta_ok /\ embed_cover
      THEN << "Calibre ('ebook-meta' for cover art)" >> ELSE << >>)
  \o (IF ~espeak_ok THEN << "espeak-ng" >> ELSE << >>)
  \o (IF ~lame_ok /\ output_format = "mp3" THEN << "LAME (for MP3)" >> ELSE << >>)
  \o (IF ~oggenc_ok /\ output_format = "ogg" THEN << "oggenc (for OGG)" >> ELSE << >>)

\* lines 98-126
CheckCommands ==
  /\ app_pc = "start"
  /\ IF ~ebook_file
     THEN /\ returned' = Result("None", "None",
                                Message("No ebook file provided", "", 0, << >>),
                                "None")
          /\ app_pc' = "done"
          /\ UNCHANGED << temp_dir, status_updates >>
     ELSE LET calibre_convert_ok == check_command("ebook-convert")
              calibre_meta_ok == IF ~embed_cover THEN TRUE
                                 ELSE check_command("ebook-meta")
              espeak_ok == check_command("espeak-ng")
              lame_ok == IF output_format # "mp3" THEN TRUE
                         ELSE check_command("lame")
              oggenc_ok == IF output_format # "ogg" THEN TRUE
                           ELSE check_command("oggenc")
              missing == Missing(calibre_convert_ok, calibre_meta_ok, espeak_ok,
                                 lame_ok, oggenc_ok)
          IN  IF missing # << >>
              THEN /\ returned' = Result("None", "None",
                                         Message("Missing required command(s)",
                                                 "", 0, missing),
                                         "None")
                   /\ app_pc' = "done"
                   /\ UNCHANGED << temp_dir, status_updates >>
              ELSE /\ temp_dir' = TRUE
                   \* lines 203-204: the notice of the cover step when
                   \* ebook-meta was not found
                   /\ status_updates' =
                        IF embed_cover /\ ~calibre_meta_ok
                        THEN << "Conversion started...",
                                "Cover art embedding requested, but 'ebook-meta' not found." >>
                        ELSE << "Conversion started..." >>
                   /\ app_pc' = IF embed_cover /\ calibre_meta_ok THEN "cover"
                                ELSE "convert"
                   /\ UNCHANGED returned
  /\ UNCHANGED << gradioVars, pairVars, pureVars, appInputs, txt_output,
                  audio_output, coverVars, app_progress, tool_runs,
                  pipeVars >>

\* lines 507-511: an exception that reaches the outer try
Critical(e, updates) ==
  /\ returned' = Result("None", cover_image_path_final,
                        Message("An unexpected critical error occurred", "", 0,
                                << e >>),
                        "None")
  /\ status_updates' = Append(updates, "An unexpected error occurred in the main process")
  /\ app_pc' = "finally"

\* an error return from inside the outer try
ReturnError(message, updates) ==
  /\ returned' = Result("None", cover_image_path_final, message, "None")
  /\ status_updates' = updates
  /\ app_pc' = "finally"

\* what ebook-meta may leave at the cover path: nothing (or an empty
\* file), a file that is no image, a JPEG or PNG, an image of another format
CoverKinds == { "none", "invalid", "jpeg", "other" }

\* a tool ran to its end: its exit status, its diagnostic text and the kind
\* of file it left
ToolRun(command, exit, stderr, output) ==
  [ command |-> command, exit |-> exit, stderr |-> stderr, output |-> output ]

\* the diagnostic text of a tool: none or some
Diagnostics(tool) == { << >>, << tool, "stderr" >> }

\* lines 144-193: the cover variables and the status line after ebook-meta
\* exited with 0
CoverOutcome(kind, converts) ==
  CASE kind = "none" ->
         [ files |-> {}, extracted |-> FALSE, final |-> "None",
           temp |-> "cover.jpg", status |-> "No cover art found in the ebook metadata." ]
    [] kind = "invalid" ->
         [ files |-> {}, extracted |-> FALSE, final |-> "None",
           temp |-> "cover.jpg", status |-> "Extracted 'cover' file is not a valid image." ]
    [] kind = "jpeg" ->
         [ files |-> { "cover.jpg" }, extracted |-> TRUE, final |-> "cover.jpg",
           temp |-> "cover.jpg", status |-> "Cover art extracted successfully." ]
    [] kind = "other" /\ converts ->
         [ files |-> { "cover.jpg", "cover_converted.jpg" }, extracted |-> TRUE,
           final |-> "cover_converted.jpg", temp |-> "cover_converted.jpg",
           status |-> "Cover art extracted and converted to JPG." ]
    [] kind = "other" /\ ~converts ->
         [ files |-> {}, extracted |-> FALSE, final |-> "None",
           temp |-> "cover.jpg", status |-> "Could not convert extracted cover art to JPG." ]

\* lines 137-204
ExtractCover ==
  /\ app_pc = "cover"
  /\ app_progress' = Append(app_progress, "Extracting cover art (optional)")
  /\ \E raises \in BOOLEAN :
       IF raises
       THEN /\ Critical("progress", status_updates)
            /\ UNCHANGED << tool_runs, coverVars >>
       ELSE \E exit \in { 0, 1 }, stderr \in Diagnostics("ebook-meta"),
               kind \in CoverKinds, converts \in BOOLEAN :
                 LET updates == Append(status_updates, "Attempting to extract cover art...")
                     outcome == CoverOutcome(kind, converts)
                 IN  /\ tool_runs' = Append(tool_runs, ToolRun("ebook-meta", exit, stderr, kind))
                     /\ IF exit # 0
                        THEN /\ UNCHANGED coverVars
                             /\ IF stderr # << >>
                                \* line 197: e.stderr is a str (text=True),
                                \* decode fails
                                THEN Critical("AttributeError", updates)
                                ELSE /\ status_updates' = Append(updates, "Failed to extract cover art.")
                                     /\ app_pc' = "convert"
                                     /\ UNCHANGED returned
                        ELSE /\ cover_files' = outcome.files
                             /\ cover_extracted' = outcome.extracted
                             /\ cover_image_path_final' = outcome.final
                             /\ cover_output_path_temp' = outcome.temp
                             /\ status_updates' = Append(updates, outcome.status)
                             /\ app_pc' = "convert"
                             /\ UNCHANGED returned
  /\ UNCHANGED << gradioVars, pairVars, pureVars, appInputs, temp_dir,
                  txt_output, audio_output, pipeVars >>

\* lines 206-237
ConvertToTxt ==
  /\ app_pc = "convert"
  /\ app_progress' = Append(app_progress, "Converting ebook to TXT")
  /\ \E raises \in BOOLEAN :
       IF raises
       THEN /\ Critical("progress", status_updates)
            /\ UNCHANGED << tool_runs, txt_output >>
       ELSE \E exit \in { 0, 1 }, stderr \in Diagnostics("ebook-convert"),
               txt \in { "absent", "empty", "text" } :
                 LET updates == Append(status_updates, "Converting ebook to plain text...")
                 IN  /\ tool_runs' = Append(tool_runs, ToolRun("ebook-convert", exit, stderr, txt))
                     /\ txt_output' = txt
                     /\ IF exit # 0
                        THEN IF stderr # << >>
                             \* line 220: e.stderr is a str (encoding='utf-8'),
                             \* decode fails
                             THEN Critical("AttributeError", updates)
                             ELSE ReturnError(Message("Calibre conversion failed",
                                                      "ebook-convert", exit,
                                                      << "No stderr" >>),
                                              Append(updates, "Error during Calibre conversion"))
                        ELSE IF txt # "text"
                             THEN ReturnError(Message("Calibre finished, but the output TXT file is missing or empty",
                                                      "ebook-convert", exit, << >>),
                                              Append(updates, "the output TXT file is missing or empty"))
                             ELSE /\ status_updates' = Append(updates, "Ebook converted to TXT.")
                                  /\ app_pc' = "speak"
                                  /\ UNCHANGED returned
  /\ UNCHANGED << gradioVars, pairVars, pureVars, appInputs, temp_dir,
                  audio_output, coverVars, pipeVars >>

\* lines 339-341: stderr_str or stdout_str or "No output/error captured."
error_details(stderr, stdout) ==
  IF stderr # << >> THEN stderr
  ELSE IF stdout # << >> THEN stdout
  ELSE << "No output/error captured." >>

\* lines 335-355: the message for a CalledProcessError of the audio step
AudioFailed(command, returncode, stderr, stdout) ==
  Message("Audio generation failed", command, returncode,
          error_details(stderr, stdout))

AudioKinds == { "absent", "small", "ok" }

\* lines 239-255 and 332-355: the wave file is written by espeak-ng itself
SpeakWav ==
  /\ app_pc = "speak"
  /\ output_format = "wav"
  /\ app_progress' = Append(app_progress, "Converting TXT to Audio")
  /\ \E raises \in BOOLEAN :
       IF raises
       THEN /\ Critical("progress", status_updates)
            /\ UNCHANGED << tool_runs, audio_output >>
       ELSE \E exit \in { 0, 1 }, stderr \in Diagnostics("espeak-ng"),
               audio \in AudioKinds :
                 LET updates == Append(status_updates, "Converting text to speech...")
                 IN  /\ tool_runs' = Append(tool_runs, ToolRun("espeak-ng", exit, stderr, audio))
                     /\ audio_output' = audio
                     /\ IF exit # 0
                        THEN ReturnError(AudioFailed("espeak-ng", exit, stderr, << >>),
                                         Append(updates, "Audio generation failed"))
                        ELSE /\ status_updates' = Append(updates, "Text converted to audio.")
                             /\ app_pc' = "check_audio"
                             /\ UNCHANGED returned
  /\ UNCHANGED << gradioVars, pairVars, pureVars, appInputs, temp_dir,
                  txt_output, coverVars, pipeVars >>

\* lines 259 and 295
Encoder(format) == IF format = "mp3" THEN "lame" ELSE "oggenc"

\* lines 239-248, 257-266 and 293-302: both processes are started, the
\* synthesizer's stdout being the encoder's stdin; the synthesizer has
\* out_left chunks to write to stdout and err_left chunks to stderr, and
\* err_written counts what it wrote to stderr
Popen ==
  /\ app_pc = "speak"
  /\ output_format \in { "mp3", "ogg" }
  /\ app_progress' = Append(app_progress, "Converting TXT to Audio")
  /\ \E raises \in BOOLEAN :
       IF raises
       THEN /\ Critical("progress", status_updates)
            /\ UNCHANGED << ps_speak, ps_enc >>
       ELSE /\ \E out \in 0..MaxChunks, err \in 0..MaxChunks :
                 ps_speak' = [ state |-> "running", out_left |-> out,
                               err_left |-> err, err_written |-> 0,
                               returncode |-> 0 ]
            /\ ps_enc' = [ state |-> "running", returncode |-> 0,
                           stdout |-> << >>, stderr |-> << >> ]
            /\ status_updates' = Append(status_updates, "Converting text to speech...")
            /\ app_pc' = "communicate"
            /\ UNCHANGED returned
  /\ UNCHANGED << gradioVars, pairVars, pureVars, appInputs, temp_dir,
                  txt_output, audio_output, coverVars, tool_runs, stdout_pipe,
                  stderr_pipe, speak_stderr_bytes >>

\* SpeakWritesStdout with the driver's end of the pipe left open: there is
\* still a reader, and no SIGPIPE
SpeakWritesStdout_ReaderKept ==
  /\ ps_speak.state = "running"
  /\ ps_speak.out_left > 0
  /\ stdout_pipe < PipeCapacity
  /\ stdout_pipe' = stdout_pipe + 1
  /\ ps_speak' = [ ps_speak EXCEPT !.out_left = @ - 1 ]
  /\ UNCHANGED << gradioVars, pairVars, pureVars, appInputs, app_pc, temp_dir,
                  txt_output, audio_output, coverVars, status_updates,
                  app_progress, tool_runs, returned, ps_enc, stderr_pipe,
                  speak_stderr_bytes >>

\* espeak-ng --stdout writes a chunk of audio: it waits while the pipe is
\* full, and is killed by SIGPIPE when the encoder, the only reader, is gone
SpeakWritesStdout ==
  /\ ps_speak.state = "running"
  /\ ps_speak.out_left > 0
  /\ IF ps_enc.state = "exited"
     THEN /\ ps_speak' = [ ps_speak EXCEPT !.state = "exited", !.returncode = -13 ]
          /\ UNCHANGED stdout_pipe
     ELSE /\ stdout_pipe < PipeCapacity
          /\ stdout_pipe' = stdout_pipe + 1
          /\ ps_speak' = [ ps_speak EXCEPT !.out_left = @ - 1 ]
  /\ UNCHANGED << gradioVars, pairVars, pureVars, appInputs, app_pc, temp_dir,
                  txt_output, audio_output, coverVars, status_updates,
                  app_progress, tool_runs, returned, ps_enc, stderr_pipe,
                  speak_stderr_bytes >>

\* espeak-ng writes a chunk of diagnostics: it waits while the pipe of its
\* stderr is full
SpeakWritesStderr ==
  /\ ps_speak.state = "running"
  /\ ps_speak.err_left > 0
  /\ stderr_pipe < PipeCapacity
  /\ stderr_pipe' = stderr_pipe + 1
  /\ ps_speak' = [ ps_speak EXCEPT !.err_left = @ - 1, !.err_written = @ + 1 ]
  /\ UNCHANGED << gradioVars, pairVars, pureVars, appInputs, app_pc, temp_dir,
                  txt_output, audio_output, coverVars, status_updates,
                  app_progress, tool_runs, returned, ps_enc, stdout_pipe,
                  speak_stderr_bytes >>

\* espeak-ng has written everything and exits
SpeakExits ==
  /\ ps_speak.state = "running"
  /\ ps_speak.out_left = 0
  /\ ps_speak.err_left = 0
  /\ \E exit \in { 0, 1 } :
       ps_speak' = [ ps_speak EXCEPT !.state = "exited", !.returncode = exit ]
  /\ UNCHANGED << gradioVars, pairVars, pureVars, appInputs, app_pc, temp_dir,
                  txt_output, audio_output, coverVars, status_updates,
                  app_progress, tool_runs, returned, ps_enc, stdout_pipe,
                  stderr_pipe, speak_stderr_bytes >>

\* the encoder reads a chunk from its stdin
EncoderReads ==
  /\ ps_enc.state = "running"
  /\ stdout_pipe > 0
  /\ stdout_pipe' = stdout_pipe - 1
  /\ UNCHANGED << gradioVars, pairVars, pureVars, appInputs, app_pc, temp_dir,
                  txt_output, audio_output, coverVars, status_updates,
                  app_progress, tool_runs, returned, ps_speak, ps_enc,
                  stderr_pipe, speak_stderr_bytes >>

\* the encoder has read its stdin to the end, which comes when espeak-ng
\* has exited and the pipe is empty, and exits; its own stdout and stderr
\* are read by the driver as they are written (communicate), so it never
\* waits for them
EncoderExits ==
  /\ ps_enc.state = "running"
  /\ ps_speak.state = "exited"
  /\ stdout_pipe = 0
  /\ \E exit \in { 0, 1 }, stdout \in Diagnostics("stdout"),
        stderr \in Diagnostics(Encoder(output_format)), audio \in AudioKinds :
       /\ exit # 0 => audio # "ok"
       /\ ps_enc' = [ state |-> "exited", returncode |-> exit,
                      stdout |-> stdout, stderr |-> stderr ]
       /\ audio_output' = audio
  /\ UNCHANGED << gradioVars, pairVars, pureVars, appInputs, app_pc, temp_dir,
                  txt_output, coverVars, status_updates, app_progress,
                  tool_runs, returned, ps_speak, stdout_pipe, stderr_pipe,
                  speak_stderr_bytes >>

\* the encoder gives up with an error before the end of its stdin
EncoderFails ==
  /\ ps_enc.state = "running"
  /\ ~(ps_speak.state = "exited" /\ stdout_pipe = 0)
  /\ \E stdout \in Diagnostics("stdout"),
        stderr \in Diagnostics(Encoder(output_format)),
        audio \in AudioKinds \ { "ok" } :
       /\ ps_enc' = [ state |-> "exited", returncode |-> 1,
                      stdout |-> stdout, stderr |-> stderr ]
       /\ audio_output' = audio
  /\ UNCHANGED << gradioVars, pairVars, pureVars, appInputs, app_pc, temp_dir,
                  txt_output, coverVars, status_updates, app_progress,
                  tool_runs, returned, ps_speak, stdout_pipe, stderr_pipe,
                  speak_stderr_bytes >>

\* lines 269 and 305: communicate() returns when the encoder has exited
Communicate ==
  /\ app_pc = "communicate"
  /\ ps_enc.state = "exited"
  /\ app_pc' = "read_stderr"
  /\ UNCHANGED << gradioVars, pairVars, pureVars, appInputs, temp_dir,
                  txt_output, audio_output, coverVars, status_updates,
                  app_progress, tool_runs, returned, pipeVars >>

\* lines 271 and 307: ps_speak.stderr.read() takes a chunk out of the pipe
ReadSpeakStderr ==
  /\ app_pc = "read_stderr"
  /\ stderr_pipe > 0
  /\ stderr_pipe' = stderr_pipe - 1
  /\ speak_stderr_bytes' = speak_stderr_bytes + 1
  /\ UNCHANGED << gradioVars, pairVars, pureVars, appInputs, app_pc, temp_dir,
                  txt_output, audio_output, coverVars, status_updates,
                  app_progress, tool_runs, returned, ps_speak, ps_enc,
                  stdout_pipe >>

\* lines 271-273 and 307-309: read() returns at the end of the stream, which
\* is when espeak-ng has exited, and wait() returns
WaitSpeak ==
  /\ app_pc = "read_stderr"
  /\ stderr_pipe = 0
  /\ ps_speak.state = "exited"
  /\ app_pc' = "pipe_check"
  /\ UNCHANGED << gradioVars, pairVars, pureVars, appInputs, temp_dir,
                  txt_output, audio_output, coverVars, status_updates,
                  app_progress, tool_runs, returned, pipeVars >>

\* what the driver read from the stderr of espeak-ng
StderrText(chunks) == [ k \in 1..chunks |-> "espeak-ng stderr" ]

\* FailedProcess that looks at the encoder only
FailedProcess_EncoderOnly(enc_returncode, speak_returncode) ==
  IF enc_returncode # 0 THEN "encoder" ELSE "none"

\* lines 280-285 and 316-321: the encoder's return code is looked at first
FailedProcess(enc_returncode, speak_returncode) ==
  IF enc_returncode # 0 THEN "encoder"
  ELSE IF speak_returncode # 0 THEN "espeak-ng"
  ELSE "none"

\* lines 275-291, 311-333 and 335-355
CheckReturnCodes ==
  /\ app_pc = "pipe_check"
  /\ LET failed_process == FailedProcess(ps_enc.returncode, ps_speak.returncode)
     IN  CASE failed_process = "encoder" ->
                ReturnError(AudioFailed(Encoder(output_format), ps_enc.returncode,
                                        ps_enc.stderr, ps_enc.stdout),
                            Append(status_updates, "Audio generation failed"))
           [] failed_process = "espeak-ng" ->
                ReturnError(AudioFailed("espeak-ng", ps_speak.returncode,
                                        StderrText(speak_stderr_bytes), << >>),
                            Append(status_updates, "Audio generation failed"))
           [] failed_process = "none" ->
                /\ status_updates' = Append(status_updates, "Text converted to audio.")
                /\ app_pc' = "check_audio"
                /\ UNCHANGED returned
  /\ UNCHANGED << gradioVars, pairVars, pureVars, appInputs, temp_dir,
                  txt_output, audio_output, coverVars, app_progress,
                  tool_runs, pipeVars >>

\* CheckAudio that goes on whatever file the audio step left
CheckAudio_NoTest ==
  /\ app_pc = "check_audio"
  /\ app_pc' = "embed"
  /\ UNCHANGED << returned, status_updates >>
  /\ UNCHANGED << gradioVars, pairVars, pureVars, appInputs, temp_dir,
                  txt_output, audio_output, coverVars, app_progress,
                  tool_runs, pipeVars >>

\* lines 370-375
CheckAudio ==
  /\ app_pc = "check_audio"
  /\ IF audio_output # "ok"
     THEN ReturnError(Message("Audio output file missing or too small", "", 0, << >>),
                      Append(status_updates, "the output file is missing or too small"))
     ELSE /\ app_pc' = "embed"
          /\ UNCHANGED << returned, status_updates >>
  /\ UNCHANGED << gradioVars, pairVars, pureVars, appInputs, temp_dir,
                  txt_output, audio_output, coverVars, app_progress,
                  tool_runs, pipeVars >>

\* lines 378-490: mutagen embeds the cover, or fails and is reported
EmbedCover ==
  /\ app_pc = "embed"
  /\ IF embed_cover /\ cover_extracted /\ MUTAGEN_AVAILABLE
          /\ cover_image_path_final \in cover_files
     THEN /\ app_progress' = Append(app_progress, "Embedding cover art")
          /\ \E raises \in BOOLEAN, embedded \in BOOLEAN :
               IF raises
               THEN Critical("progress", status_updates)
               ELSE /\ status_updates' =
                         status_updates \o
                           << "Embedding cover art into audio file...",
                              IF embedded THEN "Cover art embedded successfully."
                              ELSE "Could not embed cover art." >>
                    /\ app_pc' = "final"
                    /\ UNCHANGED returned
     ELSE /\ status_updates' =
               IF embed_cover /\ ~cover_extracted
               THEN Append(status_updates, "Cover art embedding skipped (no cover extracted or invalid).")
               ELSE IF embed_cover /\ ~MUTAGEN_AVAILABLE
                    THEN Append(status_updates, "Cover art embedding skipped (Mutagen library not installed).")
                    ELSE status_updates
          /\ app_pc' = "final"
          /\ UNCHANGED << returned, app_progress >>
  /\ UNCHANGED << gradioVars, pairVars, pureVars, appInputs, temp_dir,
                  txt_output, audio_output, coverVars, tool_runs, pipeVars >>

\* lines 493-505
Final ==
  /\ app_pc = "final"
  /\ app_progress' = Append(app_progress, "Complete")
  /\ \E raises \in BOOLEAN :
       IF raises
       THEN Critical("progress", status_updates)
       ELSE /\ status_updates' = Append(status_updates, "Conversion complete!")
            /\ returned' = Result("audio_output_path", cover_image_path_final,
                                  Message("status", "", 0, status_updates'),
                                  "audio_output_path")
            /\ app_pc' = "finally"
  /\ UNCHANGED << gradioVars, pairVars, pureVars, appInputs, temp_dir,
                  txt_output, audio_output, coverVars, tool_runs, pipeVars >>

\* lines 513-541: the text file is removed, and the original cover when
\* its path differs from the final one
Finally ==
  /\ app_pc = "finally"
  /\ txt_output' = "absent"
  /\ cover_files' = IF cover_image_path_final # "None"
                       /\ cover_output_path_temp # cover_image_path_final
                    THEN cover_files \ { cover_output_path_temp }
                    ELSE cover_files
  /\ app_pc' = "done"
  /\ UNCHANGED << gradioVars, pairVars, pureVars, appInputs, temp_dir,
                  audio_output, cover_extracted, cover_image_path_final,
                  cover_output_path_temp, status_updates, app_progress,
                  tool_runs, returned, pipeVars >>

NextApp ==
  \/ CheckCommands
  \/ ExtractCover
  \/ ConvertToTxt
  \/ SpeakWav
  \/ Popen
  \/ SpeakWritesStdout
  \/ SpeakWritesStderr
  \/ SpeakExits
  \/ EncoderReads
  \/ EncoderExits
  \/ EncoderFails
  \/ Communicate
  \/ ReadSpeakStderr
  \/ WaitSpeak
  \/ CheckReturnCodes
  \/ CheckAudio
  \/ EmbedCover
  \/ Final
  \/ Finally

SpecApp == InitApp /\ [][NextApp]_vars

(***************************************************************************)
(* Properties.                                                             *)
(***************************************************************************)
Abs(x) == IF x < 0 THEN -x ELSE x

SegmentationDone ==
  pc \notin { "wipe", "normalize", "segment", "crashed" }

SynthesisDone ==
  pc \in { "m4b_list", "m4b_combine", "m4b_metadata", "mux1", "mux2", "mux3",
           "mux4", "m4b_cleanup", "return", "done" }

MetadataWritten ==
  pc \in { "mux1", "mux2", "mux3", "mux4", "m4b_cleanup", "return", "done" }

\* d1 + ... + dn for the first n chapter audio files, di in milliseconds
RECURSIVE SumMs(_, _)
SumMs(files, n) ==
  IF n = 0 THEN 0 ELSE SumMs(files, n - 1) + DurationMs(wav_files[files[n]])

\* what C1 says of every marker: START is the sum of the durations before
\* it, END is START plus its own duration, the STARTs chain
MarkersChain ==
  /\ Len(metadata) = Len(chapter_files)
  /\ \A i \in 1..Len(metadata) :
       /\ metadata[i].start = SumMs(chapter_files, i - 1)
       /\ metadata[i].end = metadata[i].start + DurationMs(wav_files[chapter_files[i]])
       /\ i = 1 => metadata[i].start = 0
       /\ i > 1 => metadata[i].start = metadata[i - 1].end

\* C1 as stated: the markers chain and the last END is the length of the
\* waveform combine_wav_files produced from the same list
C1_AsStated ==
  MetadataWritten =>
    /\ MarkersChain
    /\ Len(metadata) > 0 =>
         metadata[Len(metadata)].end = DurationMs(combined_wav)

\* C1 (amended): the i-th marker has START = d1 + ... + d(i-1) and
\* END = START + di, the first START is 0, every START is the previous END,
\* and the last END is d1 + ... + dN, which is within (N + 1) / 2
\* milliseconds of the length of the combined waveform: each length is a
\* frame count rounded to milliseconds
C1_MarkerOffsets ==
  MetadataWritten =>
    /\ MarkersChain
    /\ Len(metadata) > 0 =>
         /\ metadata[Len(metadata)].end = SumMs(chapter_files, Len(chapter_files))
         /\ 2 * Abs(metadata[Len(metadata)].end - DurationMs(combined_wav))
              <= Len(metadata) + 1

\* three chapters with audio, the later markers starting after time 0
C1_Witness ==
  /\ MetadataWritten
  /\ Len(metadata) = 3
  /\ metadata[2].start > 0
  /\ metadata[3].start > metadata[2].start

(***************************************************************************)
(* Segmentation (C2, C3, C4).                                              *)
(***************************************************************************)
\* save_chapters_as_text has been entered
Segmenting == chapters_dir_exists /\ pc \notin { "wipe", "normalize" }

\* the number of items the loop has processed
Processed == IF pc = "segment" THEN item_pos - 1 ELSE Len(items)

\* item i has text that is not only whitespace
NonEmptyItem(i) == \E k \in 1..Len(items[i].words) : items[i].words[k] \notin { " ", "\n" }

NonEmptyItems(n) == { i \in 1..n : NonEmptyItem(i) }

\* a merge event: a non-empty item shorter than 2300 characters, processed
\* when a chapter exists, that is, after an earlier non-empty item
MergeEvents(n) ==
  { i \in NonEmptyItems(n) : items[i].len < 2300 /\ NonEmptyItems(i - 1) # {} }

ChapterTxtFiles == ListDir(txt_files, ChaptersDirectory)

\* C2: the number of chapter files is at most the number of non-empty items
\* and equals that number minus the number of merge events
C2_ChapterCount ==
  Segmenting =>
    /\ Cardinality(ChapterTxtFiles) <= Cardinality(NonEmptyItems(Processed))
    /\ Cardinality(ChapterTxtFiles) =
         Cardinality(NonEmptyItems(Processed)) - Cardinality(MergeEvents(Processed))

\* a book of three non-empty items, the last at the threshold, one merged
C2_Witness ==
  /\ pc = "csv"
  /\ Segmenting
  /\ Cardinality(NonEmptyItems(Len(items))) = 3
  /\ Cardinality(MergeEvents(Len(items))) = 1
  /\ items[3].len = 2300
  /\ Cardinality(ChapterTxtFiles) = 2

\* the chapter file that holds item i, and the position of i in it
HoldersOf(i) ==
  { path \in DOMAIN txt_files : \E k \in 1..Len(txt_files[path]) : txt_files[path][k] = i }

FileOf(i) == CHOOSE path \in HoldersOf(i) : TRUE

PlaceIn(i) == CHOOSE k \in 1..Len(txt_files[FileOf(i)]) : txt_files[FileOf(i)][k] = i

\* the number in the name of a chapter file
NumberOf(path) ==
  CHOOSE n \in 0..(Len(items) + 1) : path = PathJoin(ChaptersDirectory, ChapterFileName(n))

\* the last non-empty item before item i
LastNonEmptyBefore(i) ==
  CHOOSE j \in NonEmptyItems(i - 1) : \A m \in NonEmptyItems(i - 1) : m <= j

\* C3: a non-empty item shorter than 2300 characters is appended to the most
\* recently created chapter when one exists, otherwise a new chapter is
\* started; the first non-empty item is the first chapter whatever its
\* length; empty items create no chapter and do not change where later
\* short items are merged
C3_MergeRule ==
  Segmenting =>
    \A i \in 1..Processed :
      IF ~NonEmptyItem(i) THEN HoldersOf(i) = {}
      ELSE /\ Cardinality(HoldersOf(i)) = 1
           /\ IF items[i].len < 2300 /\ NonEmptyItems(i - 1) # {}
              THEN /\ FileOf(i) = FileOf(LastNonEmptyBefore(i))
                   /\ PlaceIn(i) = PlaceIn(LastNonEmptyBefore(i)) + 1
              ELSE /\ PlaceIn(i) = 1
                   /\ \A j \in NonEmptyItems(i - 1) :
                        NumberOf(FileOf(j)) < NumberOf(FileOf(i))

\* a short first item became a chapter, and a short item after an empty item
\* was merged into it
C3_Witness ==
  /\ pc = "csv"
  /\ Segmenting
  /\ Len(items) = 3
  /\ NonEmptyItem(1) /\ items[1].len < 2300
  /\ ~NonEmptyItem(2)
  /\ NonEmptyItem(3) /\ items[3].len < 2300
  /\ FileOf(3) = FileOf(1)

AudioWavFiles == ListDir(wav_files, output_audio_dir)

\* the chapter files are the texts numbered first..last in document order,
\* and after synthesis the audio files carry the same numbers
ChaptersNumbered(first, last) ==
  /\ ChapterTxtFiles = { ChapterFileName(n) : n \in first..last }
  /\ \A n, m \in first..last :
       n < m => \A a \in 1..Len(txt_files[PathJoin(ChaptersDirectory, ChapterFileName(n))]),
                   b \in 1..Len(txt_files[PathJoin(ChaptersDirectory, ChapterFileName(m))]) :
                  txt_files[PathJoin(ChaptersDirectory, ChapterFileName(n))][a]
                    < txt_files[PathJoin(ChaptersDirectory, ChapterFileName(m))][b]
  /\ SynthesisDone => AudioWavFiles = { AudioFileName(n) : n \in first..last }

SentencesIn(audio) == { audio[k].sent : k \in 1..Len(audio) }

ChapterTextPath(n) == PathJoin(ChaptersDirectory, ChapterFileName(n))

ChapterAudioPath(n) == PathJoin(output_audio_dir, AudioFileName(n))

ChapterNumbers == { n \in 0..MaxChapters : ChapterTextPath(n) \in DOMAIN txt_files }

CsvWritten == pc \notin { "wipe", "normalize", "segment", "csv", "crashed" }

FlatWritten == CsvWritten /\ pc # "flatten"

Ascending(xs) == \A a, b \in 1..Len(xs) : a < b => xs[a] < xs[b]

\* C5 as stated: the CSV, the flat text, the sorted list of chapter audio
\* (hence the chapter markers) and the combined waveform hold the chapters
\* in the order of their numbers, and chapter_<N>.txt yields
\* audio_chapter_<N>.wav, whatever order the directory is listed in and
\* whatever digits the path holds
C5_AsStated ==
  /\ CsvWritten => Ascending([ k \in 1..Len(csv_rows) |-> csv_rows[k].sent ])
  /\ FlatWritten => Ascending(Flatten(chapter_book))
  /\ SynthesisDone =>
       \A n \in ChapterNumbers :
         /\ ChapterAudioPath(n) \in DOMAIN wav_files
         /\ [ k \in 1..Len(wav_files[ChapterAudioPath(n)]) |->
               wav_files[ChapterAudioPath(n)][k].sent ]
              = SelectSeq(txt_files[ChapterTextPath(n)], LAMBDA i : i \notin failed)
  /\ pc \in { "m4b_combine", "m4b_metadata" } \/ MetadataWritten =>
       \A k \in 1..Len(chapter_files) : chapter_files[k] = ChapterAudioPath(k - 1)
  /\ MetadataWritten =>
       Ascending([ k \in 1..Len(combined_wav) |-> combined_wav[k].sent ])

(***************************************************************************)
(* Synthesis (C6, C7, C8).                                                 *)
(***************************************************************************)
\* C6: for every sentence the synthesizer is called once with the original
\* text, a second time only if the first call exited non-zero and then with
\* sanitize_sentence(sentence), and never a third time
C6_RetryOnce ==
  /\ Len(attempts) <= 2
  /\ pc = "synth_first" => attempts = << >>
  /\ pc = "synth_retry" => Len(attempts) = 1
  /\ pc \in { "synth_retry", "synth_check" } =>
       /\ Len(attempts) >= 1
       /\ attempts[1].text = sentences[sent_pos].text
       /\ pc = "synth_retry" => attempts[1].exit # 0
       /\ pc = "synth_check" /\ Len(attempts) = 1 => attempts[1].exit = 0
       /\ Len(attempts) = 2 =>
            /\ attempts[1].exit # 0
            /\ attempts[2].text = sanitize_sentence(sentences[sent_pos].text)

\* a sentence that sanitizing changes was retried, and the retry succeeded
C6_Witness ==
  /\ pc = "synth_check"
  /\ Len(attempts) = 2
  /\ attempts[2].exit = 0
  /\ attempts[2].text # attempts[1].text

\* C7: a sentence whose synthesis failed twice or whose file is zero bytes
\* contributes no audio, and processing goes on: every later sentence is
\* still attempted, the chapter audio is still written, every later chapter
\* is still processed
C7_FailureDoesNotHalt ==
  /\ \A s \in failed :
       /\ s \notin SentencesIn(combined_audio)
       /\ \A path \in DOMAIN wav_files : s \notin SentencesIn(wav_files[path])
  /\ SynthesisDone =>
       /\ attempted = NonEmptyItems(Len(items))
       /\ \A n \in ChapterNumbers :
            /\ ChapterAudioPath(n) \in DOMAIN wav_files
            /\ SentencesIn(wav_files[ChapterAudioPath(n)]) =
                 { txt_files[ChapterTextPath(n)][k] :
                     k \in 1..Len(txt_files[ChapterTextPath(n)]) } \ failed

\* the first sentence of the first chapter failed; the second sentence of
\* that chapter and the sentence of the next chapter are in the audio
C7_Witness ==
  /\ SynthesisDone
  /\ failed = { 1 }
  /\ ChapterTextPath(1) \in DOMAIN txt_files
  /\ txt_files[ChapterTextPath(0)] = << 1, 2 >>
  /\ SentencesIn(wav_files[ChapterAudioPath(0)]) = { 2 }
  /\ SentencesIn(wav_files[ChapterAudioPath(1)]) = { 3 }

\* the sentences of the book in document order, the failed ones left out
SurvivingSentences ==
  SelectSeq([ i \in 1..Len(items) |-> i ],
            LAMBDA i : NonEmptyItem(i) /\ i \notin failed)

\* C8: whatever sentences fail, the metadata holds exactly K markers
\* labelled Chapter 1..K for the K chapters of the book, and the combined
\* audio is the audio of the sentences that did not fail, in document
\* order; an audiobook muxed at level 1 holds these markers and this audio
C8_FailuresKeepChapters ==
  MetadataWritten =>
    /\ Len(metadata) = Cardinality(ChapterNumbers)
    /\ \A i \in 1..Len(metadata) : metadata[i].title = i
    /\ [ k \in 1..Len(combined_wav) |-> combined_wav[k].sent ] = SurvivingSentences
    /\ mux_calls # << >> /\ mux_calls[1].exit = 0 =>
         /\ output_m4b # << >>
         /\ output_m4b[1].chapters = metadata
         /\ output_m4b[1].audio = combined_wav

\* three chapters, exactly one failing sentence and that in chapter 2,
\* whose audio is then empty; the audiobook was muxed at level 1
C8_Witness ==
  /\ pc = "done"
  /\ Cardinality(ChapterNumbers) = 3
  /\ failed = { 2 }
  /\ txt_files[ChapterTextPath(1)] = << 2 >>
  /\ wav_files[ChapterAudioPath(1)] = << >>
  /\ Len(combined_wav) = 2
  /\ Len(metadata) = 3
  /\ metadata[2].end = metadata[2].start
  /\ Len(mux_calls) = 1
  /\ output_m4b # << >>

(***************************************************************************)
(* Muxing (C9, C10).                                                       *)
(***************************************************************************)
\* C9 as stated: the levels are tried in the order 1, 2, 3, 4, each only
\* after the call of the level before exited non-zero, and none after a
\* call that exited with 0
C9_AsStated ==
  \A k \in 1..Len(mux_calls) :
    /\ mux_calls[k].level = k
    /\ k > 1 => mux_calls[k - 1].exit # 0

\* C10 as stated: every level's command writes to the final output path,
\* so once the call of any level has exited with 0 the output file exists
\* and holds the combined audio
C10_AsStated ==
  /\ \A k \in 1..Len(mux_calls) : "output.m4b" \in OutputsOf(mux_calls[k].cmd)
  /\ (\E k \in 1..Len(mux_calls) : mux_calls[k].exit = 0) =>
       /\ output_m4b # << >>
       /\ output_m4b[1].audio = combined_wav

\* the muxer was called at all four levels and exited non-zero every time
AllLevelsFailed ==
  /\ Len(mux_calls) = 4
  /\ \A k \in 1..4 : mux_calls[k].level = k /\ mux_calls[k].exit # 0

\* C11: a request whose muxer failed at every level, so that no audiobook
\* file was produced, does not return "Audiobook created at ..." with the
\* audiobook path and does not report the milestone "Conversion complete"
C11_AsStated ==
  (pc = "done" /\ AllLevelsFailed /\ output_m4b = << >>) =>
    /\ result # "Audiobook created"
    /\ \A k \in 1..Len(progress_log) : progress_log[k] # "Conversion complete"

\* app.py: the command was started during the request
Invoked(command) ==
  \/ \E k \in 1..Len(tool_runs) : tool_runs[k].command = command
  \/ command = "espeak-ng" /\ ps_speak.state # "none"
  \/ command = Encoder(output_format) /\ ps_enc.state # "none"

\* the runs of ebook-convert that exited non-zero or left a missing or
\* empty text file
FailedConversions ==
  { k \in 1..Len(tool_runs) :
      /\ tool_runs[k].command = "ebook-convert"
      /\ tool_runs[k].exit # 0 \/ tool_runs[k].output # "text" }

\* C12: when ebook-convert exits non-zero or leaves a missing or empty text
\* file, the request of app.py ends without a synthesizer or encoder having
\* been started, returns no audio, and its error message carries the
\* diagnostic text of the converter
C12_AsStated ==
  \A k \in FailedConversions :
    /\ ~Invoked("espeak-ng") /\ ~Invoked("lame") /\ ~Invoked("oggenc")
    /\ app_pc = "done" =>
         /\ returned.audio = "None"
         /\ returned.file = "None"
         /\ returned.message.kind # "status"
         /\ tool_runs[k].stderr # << >> =>
              returned.message.detail = tool_runs[k].stderr

\* app.py: the external commands the selected options need
RequiredCommands ==
  { "ebook-convert", "espeak-ng" }
    \cup (IF output_format = "mp3" THEN { "lame" } ELSE {})
    \cup (IF output_format = "ogg" THEN { "oggenc" } ELSE {})
    \cup (IF embed_cover THEN { "ebook-meta" } ELSE {})

AbsentCommands == RequiredCommands \ installed

\* how the error message names a command
LabelOf(command) ==
  CASE command = "ebook-convert" -> "Calibre ('ebook-convert')"
    [] command = "ebook-meta" -> "Calibre ('ebook-meta' for cover art)"
    [] command = "espeak-ng" -> "espeak-ng"
    [] command = "lame" -> "LAME (for MP3)"
    [] command = "oggenc" -> "oggenc (for OGG)"

\* the request ended before any work: no temporary directory, no tool run,
\* no audio returned, and the message lists every absent command
MissingReported ==
  /\ app_pc = "done"
  /\ temp_dir = FALSE
  /\ \A command \in Tools : ~Invoked(command)
  /\ returned.audio = "None" /\ returned.file = "None"
  /\ returned.message.kind = "Missing required command(s)"
  /\ \A command \in AbsentCommands :
       \E k \in 1..Len(returned.message.detail) :
         returned.message.detail[k] = LabelOf(command)

\* C13 as stated: whenever a required command is absent, the request of
\* app.py ends before any work with one message listing every absent
\* command
C13_AsStated ==
  (AbsentCommands # {} /\ app_pc # "start") => MissingReported

\* C13: the same for a request that carries an ebook file (without one the
\* request ends with "No ebook file provided" before the commands are
\* checked)
C13_MissingListed ==
  (ebook_file /\ AbsentCommands # {} /\ app_pc # "start") => MissingReported

\* an mp3 request with the cover box ticked, with lame and ebook-meta
\* absent and nothing else: the message lists exactly the two
C13_Witness ==
  /\ ebook_file /\ command_runs
  /\ output_format = "mp3" /\ embed_cover
  /\ AbsentCommands = { "lame", "ebook-meta" }
  /\ app_pc = "done"
  /\ returned.message.detail =
       << "Calibre ('ebook-meta' for cover art)", "LAME (for MP3)" >>

\* the steps of the piped strategy that happen of themselves: a process
\* writes, reads or exits when it can, the driver's call returns when it
\* can (an encoder giving up early is not one of them)
PipeStep ==
  \/ SpeakWritesStdout
  \/ SpeakWritesStderr
  \/ SpeakExits
  \/ EncoderReads
  \/ EncoderExits
  \/ Communicate
  \/ ReadSpeakStderr
  \/ WaitSpeak

\* the driver is inside communicate(), stderr.read() or wait()
DriverWaits == app_pc \in { "communicate", "read_stderr" }

\* C14: the piped strategy never deadlocks: while the driver waits for the
\* two processes, whatever espeak-ng has written to stdout and to stderr,
\* one of the processes or the driver can take its next step
C14_AsStated == DriverWaits => ENABLED PipeStep

\* the return codes of the two processes of the pipe have been looked at
PastCheck ==
  /\ ps_enc.state # "none"
  /\ app_pc \notin { "communicate", "read_stderr", "pipe_check" }

InStatus(line) == \E k \in 1..Len(status_updates) : status_updates[k] = line

\* the message names the encoder, which exited non-zero, with its return
\* code and its stderr
NamesEncoder ==
  /\ returned.message.command = Encoder(output_format)
  /\ ps_enc.returncode # 0
  /\ returned.message.exit = ps_enc.returncode
  /\ ps_enc.stderr # << >> => returned.message.detail = ps_enc.stderr

\* the message names espeak-ng, which exited non-zero, with its return code
\* and all it wrote to stderr
NamesSpeak ==
  /\ returned.message.command = "espeak-ng"
  /\ ps_speak.returncode # 0
  /\ returned.message.exit = ps_speak.returncode
  /\ ps_speak.err_written > 0 =>
       /\ Len(returned.message.detail) = ps_speak.err_written
       /\ \A k \in 1..Len(returned.message.detail) :
            returned.message.detail[k] = "espeak-ng stderr"

\* C15: in the piped strategy the return codes are looked at only when
\* both processes have exited; if one of them exited non-zero the request
\* returns no audio and an error that names a process that exited non-zero,
\* with that process's return code and captured stderr; "Text converted to
\* audio." is in the status only when both return codes are zero
C15_BothExitCodes ==
  /\ app_pc = "pipe_check" =>
       ps_speak.state = "exited" /\ ps_enc.state = "exited"
  /\ (PastCheck /\ (ps_enc.returncode # 0 \/ ps_speak.returncode # 0)) =>
       /\ ~InStatus("Text converted to audio.")
       /\ returned.audio = "None" /\ returned.file = "None"
       /\ returned.message.kind = "Audio generation failed"
       /\ NamesEncoder \/ NamesSpeak
  /\ (ps_enc.state # "none" /\ InStatus("Text converted to audio.")) =>
       ps_enc.returncode = 0 /\ ps_speak.returncode = 0

\* lame exited with 0 and espeak-ng with 1 after a chunk on stderr: the
\* request ended with the error of espeak-ng and that chunk
C15_Witness ==
  /\ app_pc = "done"
  /\ output_format = "mp3"
  /\ ps_enc.returncode = 0
  /\ ps_speak.returncode = 1
  /\ ps_speak.err_written = 1
  /\ returned.message.command = "espeak-ng"
  /\ returned.message.detail = << "espeak-ng stderr" >>

\* the stage a position belongs to: 1 normalization, 2 segmentation (with
\* the flattened views), 3 synthesis, 4 assembly, 5 the end of the request
StageOf(position) ==
  CASE position \in { "wipe", "normalize" } -> 1
    [] position \in { "segment", "csv", "flatten" } -> 2
    [] position \in { "synth_list", "synth_chapter", "synth_first", "synth_retry",
                      "synth_check", "synth_export" } -> 3
    [] position \in { "m4b_list", "m4b_combine", "m4b_metadata", "mux1", "mux2",
                      "mux3", "mux4", "m4b_cleanup" } -> 4
    [] position \in { "return", "done", "crashed" } -> 5

\* a step stays in its stage or enters the next one
NextStageOnly == StageOf(pc') \in { StageOf(pc), StageOf(pc) + 1 } \/ pc' = "crashed"

\* save_chapters_as_text runs with temp.epub in place, the synthesis with
\* the directory of the chapter texts, the assembly with the audio file of
\* every chapter text
ArtifactsExist ==
  /\ pc = "segment" => temp_epub
  /\ StageOf(pc) = 3 => chapters_dir_exists
  /\ StageOf(pc) = 4 =>
       /\ chapters_dir_exists
       /\ \A n \in ChapterNumbers : ChapterAudioPath(n) \in DOMAIN wav_files

OwnChapters == 0..(Len(items) - 1)

\* this request's muxer wrote the file at the audiobook path
MuxedNow ==
  \E k \in 1..Len(mux_calls) :
    mux_calls[k].exit = 0 /\ "output.m4b" \in OutputsOf(mux_calls[k].cmd)

MaxPairChapters == 2

Other(r) == 3 - r

Running(position) == position \notin { "start", "done", "crashed" }

\* the pair after request r moved to 'position' with the fields of 'local'
\* and the shared fields of 'shared' changed
PairStep(r, position, local, shared) ==
  [ shared EXCEPT !.req[r] = [ local EXCEPT !.pc = position ] ]

\* the files of 'files' with file n written by request 'by'
Written(files, n, by) ==
  { f \in files : f.n # n } \cup { [ n |-> n, by |-> by ] }

\* the files of 'files' in the order of their numbers
RECURSIVE InOrder(_)
InOrder(files) ==
  IF files = {} THEN << >>
  ELSE LET first == CHOOSE f \in files : \A g \in files : f.n <= g.n
       IN  << first >> \o InOrder(files \ { first })

\* PairWipe that waits until the other request has ended
PairWipe_Locked(r) ==
  /\ pair.req[r].pc = "start"
  /\ ~Running(pair.req[Other(r)].pc)
  /\ pair' = PairStep(r, "segment", pair.req[r],
                      [ pair EXCEPT !.temp_ebook = FALSE, !.chapter_txt = {},
                                    !.audio_dir = FALSE, !.chapter_wav = {} ])
  /\ UNCHANGED << gradioVars, appVars, pureVars >>

\* lines 318-319: both directories are removed with what they hold
PairWipe(r) ==
  /\ pair.req[r].pc = "start"
  /\ LET overlap == Running(pair.req[Other(r)].pc)
     IN  pair' = PairStep(r, "segment",
                   [ pair.req[r] EXCEPT !.alone = ~overlap ],
                   [ pair EXCEPT !.temp_ebook = FALSE, !.chapter_txt = {},
                                 !.audio_dir = FALSE, !.chapter_wav = {},
                                 !.req[Other(r)].alone = @ /\ ~overlap ])
  /\ UNCHANGED << gradioVars, appVars, pureVars >>

\* lines 166-168: save_chapters_as_text makes the chapter directory
PairEnsureDirectory(r) ==
  /\ pair.req[r].pc = "segment"
  /\ pair' = PairStep(r, "write", pair.req[r],
                      [ pair EXCEPT !.temp_ebook = TRUE ])
  /\ UNCHANGED << gradioVars, appVars, pureVars >>

\* lines 183-187: the next chapter file is opened for writing, which
\* raises when the directory is gone
PairWriteChapter(r) ==
  /\ pair.req[r].pc = "write"
  /\ pair.req[r].chapter_counter < pair.req[r].chapters
  /\ pair' =
       IF pair.temp_ebook
       THEN PairStep(r, "write",
              [ pair.req[r] EXCEPT !.chapter_counter = @ + 1 ],
              [ pair EXCEPT !.chapter_txt =
                  Written(@, pair.req[r].chapter_counter, r) ])
       ELSE PairStep(r, "crashed", pair.req[r], pair)
  /\ UNCHANGED << gradioVars, appVars, pureVars >>

\* lines 203-221: process_chapter_files lists the chapter directory, which
\* raises when the directory is gone
PairProcessChapterFiles(r) ==
  /\ pair.req[r].pc = "write"
  /\ pair.req[r].chapter_counter = pair.req[r].chapters
  /\ pair' = PairStep(r, IF pair.temp_ebook THEN "list" ELSE "crashed",
                      pair.req[r], pair)
  /\ UNCHANGED << gradioVars, appVars, pureVars >>

\* lines 264-267: the audio directory is made when absent and the chapter
\* directory is listed once
PairListChapters(r) ==
  /\ pair.req[r].pc = "list"
  /\ pair' =
       IF pair.temp_ebook
       THEN PairStep(r, "synth",
              [ pair.req[r] EXCEPT !.todo =
                  [ k \in 1..Cardinality(pair.chapter_txt) |->
                      InOrder(pair.chapter_txt)[k].n ] ],
              [ pair EXCEPT !.audio_dir = TRUE ])
       ELSE PairStep(r, "crashed", pair.req[r],
                     [ pair EXCEPT !.audio_dir = TRUE ])
  /\ UNCHANGED << gradioVars, appVars, pureVars >>

\* lines 277-309: the next chapter file of the listing is read and its
\* audio exported; the open raises when the file is gone, the export when
\* the audio directory is gone
PairSynthChapter(r) ==
  /\ pair.req[r].pc = "synth"
  /\ pair.req[r].todo # << >>
  /\ LET n == Head(pair.req[r].todo)
         texts == { f \in pair.chapter_txt : f.n = n }
     IN  pair' =
           IF texts # {} /\ pair.audio_dir
           THEN PairStep(r, "synth",
                  [ pair.req[r] EXCEPT !.todo = Tail(@) ],
                  [ pair EXCEPT !.chapter_wav =
                      Written(@, n, (CHOOSE f \in texts : TRUE).by) ])
           ELSE PairStep(r, "crashed", pair.req[r], pair)
  /\ UNCHANGED << gradioVars, appVars, pureVars >>

\* lines 132-139: the audio directory is listed, which raises when it is
\* gone, and the files listed are combined into <tmp>/combined.wav
PairCombine(r) ==
  /\ pair.req[r].pc = "synth"
  /\ pair.req[r].todo = << >>
  /\ pair' =
       IF pair.audio_dir
       THEN PairStep(r, "mux", pair.req[r],
                     [ pair EXCEPT !.combined = InOrder(pair.chapter_wav) ])
       ELSE PairStep(r, "crashed", pair.req[r], pair)
  /\ UNCHANGED << gradioVars, appVars, pureVars >>

\* lines 141-144: the muxer reads <tmp>/combined.wav as it is now and
\* writes the audiobook of the request; combined.wav is removed
PairCreateM4b(r) ==
  /\ pair.req[r].pc = "mux"
  /\ pair' = PairStep(r, "done",
                      [ pair.req[r] EXCEPT !.audiobook = pair.combined ],
                      [ pair EXCEPT !.combined = << >> ])
  /\ UNCHANGED << gradioVars, appVars, pureVars >>

InitPair ==
  /\ GradioIdle
  /\ AppIdle
  /\ PureIdle
  /\ \E first, second \in 1..MaxPairChapters :
       pair = PairAt("start", first, second)

NextPair ==
  \E r \in Requests :
    \/ PairWipe(r)
    \/ PairEnsureDirectory(r)
    \/ PairWriteChapter(r)
    \/ PairProcessChapterFiles(r)
    \/ PairListChapters(r)
    \/ PairSynthChapter(r)
    \/ PairCombine(r)
    \/ PairCreateM4b(r)

SpecPair == InitPair /\ [][NextPair]_vars

\* the chapters of request r's own book, in order
OwnBook(r) ==
  [ k \in 1..pair.req[r].chapters |-> [ n |-> k - 1, by |-> r ] ]

\* request r returned and its audiobook is not that of its book
Damaged(r) ==
  /\ pair.req[r].pc = "done"
  /\ pair.req[r].audiobook # OwnBook(r)

\* C18: no lock keeps two requests apart: a request can wipe the
\* directories whatever the other one is doing; and a request that ran
\* with no step of the other between its steps has the audiobook of its
\* own book
C18_NoLocking ==
  \A r \in Requests :
    /\ pair.req[r].pc = "start" => ENABLED PairWipe(r)
    /\ (pair.req[r].pc = "done" /\ pair.req[r].alone) =>
         pair.req[r].audiobook = OwnBook(r)

\* request 1 returned an audiobook that holds a chapter of the other book
\* and lacks its own second chapter
C18_Witness ==
  /\ pair.req[1].pc = "done"
  /\ ~pair.req[1].alone
  /\ pair.req[1].chapters = 2
  /\ \E k \in 1..Len(pair.req[1].audiobook) : pair.req[1].audiobook[k].by = 2
  /\ [ n |-> 1, by |-> 1 ] \notin
       { pair.req[1].audiobook[k] : k \in 1..Len(pair.req[1].audiobook) }

\* C19: when a request of gradio_launch.py has ended, with a result or
\* with an exception, Working_files/temp.epub does not exist
C19_AsStated ==
  pc \in { "done", "crashed" } => ~temp_epub

\* C20: in app.py a progress callback that raises changes nothing: the
\* stage announced by a milestone runs (the converter after 'Converting
\* ebook to TXT'), and no request returns the exception of the callback
\* as its result, which the execution with a callback that does not raise
\* never returns
C20_AsStated ==
  /\ (\E k \in 1..Len(app_progress) : app_progress[k] = "Converting ebook to TXT")
       => Invoked("ebook-convert")
  /\ returned.message.detail # << "progress" >>

(***************************************************************************)
(* A request for a book beside which the caller may keep a picture of the  *)
(* book's name: the cover path of extract_metadata_and_cover is the ebook  *)
(* path with its extension replaced by .jpg.                               *)
(***************************************************************************)
InitCover ==
  /\ GradioInitWith(SeqBooks, { ChapterWavFiles }, StaleFiles,
                    { "absent", "caller" })
  /\ AppIdle
  /\ PairIdle
  /\ PureIdle

SpecCover == InitCover /\ [][NextSort]_vars

\* C21: the request deletes and rewrites only files it made itself: a
\* file that was beside the source document before the request stays as it
\* was, and so do the files that were in the chapter directory when the
\* request began
C21_AsStated ==
  [][ /\ cover_jpg = "caller" => cover_jpg' = "caller"
      /\ pc = "wipe" => DOMAIN txt_files \subseteq DOMAIN txt_files' ]_vars

\* the sentences of 'audio', in its order
SentenceSeq(audio) == [ k \in 1..Len(audio) |-> audio[k].sent ]

\* the sentences of 'texts' that did not fail, in their order
Surviving(texts) == SelectSeq(texts, LAMBDA s : s \notin failed)

\* C22: the audio of a chapter is the audio of its sentences in sentence
\* order, each once, those left out whose last call failed or whose file
\* was empty, and no part of it is an empty waveform: while the chapter is
\* synthesized this holds of the sentences done so far, and it holds of
\* every chapter file written
C22_ChapterAudioInOrder ==
  /\ pc \in { "synth_first", "synth_retry", "synth_check", "synth_export" } =>
       /\ SentenceSeq(combined_audio) =
            Surviving([ k \in 1..(sent_pos - 1) |-> sentences[k].sent ])
       /\ \A k \in 1..Len(combined_audio) : combined_audio[k].frames >= 1
  /\ SynthesisDone =>
       \A n \in ChapterNumbers :
         /\ SentenceSeq(wav_files[ChapterAudioPath(n)]) =
              Surviving(txt_files[ChapterTextPath(n)])
         /\ \A k \in 1..Len(wav_files[ChapterAudioPath(n)]) :
              wav_files[ChapterAudioPath(n)][k].frames >= 1

\* a chapter of three sentences whose second failed: its audio is the
\* first sentence's followed by the third's
C22_Witness ==
  /\ SynthesisDone
  /\ failed = { 2 }
  /\ txt_files[ChapterTextPath(0)] = << 1, 2, 3 >>
  /\ SentenceSeq(wav_files[ChapterAudioPath(0)]) = << 1, 3 >>

(***************************************************************************)
(* combine_chapters, lines 245-249, on the texts of the chapter files in   *)
(* the order of sorted_files.  A text is a sequence of characters in which *)
(* the word NEWCHAPTERABC stands as one element: the word holds no newline *)
(* and none of its beginnings is one of its endings, so an occurrence of   *)
(* it in the file is an occurrence of the element.                         *)
(***************************************************************************)
MaxFlatChapters == 3

MaxTextLen == 1

Sentinel == "NEWCHAPTERABC"

TextChars == { "a", "\n", Sentinel }

\* combine_chapters that writes the sentinel after the last chapter too
RECURSIVE combine_chapters_AfterEach(_)
combine_chapters_AfterEach(texts) ==
  IF Len(texts) = 0 THEN << >>
  ELSE Head(texts) \o << "\n", Sentinel, "\n" >>
         \o combine_chapters_AfterEach(Tail(texts))

\* lines 245-249: what is written to Chapter_Book.txt
RECURSIVE combine_chapters(_)
combine_chapters(texts) ==
  IF Len(texts) = 0 THEN << >>
  ELSE IF Len(texts) = 1 THEN Head(texts)
  ELSE Head(texts) \o << "\n", Sentinel, "\n" >> \o combine_chapters(Tail(texts))

CombineTexts ==
  /\ pure.op = "chapter texts"
  /\ pure' = [ pure EXCEPT !.op = "combine_chapters",
                           !.out = << combine_chapters(pure.args) >> ]
  /\ UNCHANGED << gradioVars, appVars, pairVars >>

InitFlat ==
  /\ GradioIdle
  /\ AppIdle
  /\ PairIdle
  /\ \E texts \in SeqsUpTo(SeqsUpTo(TextChars, MaxTextLen), MaxFlatChapters) :
       pure = [ op |-> "chapter texts", args |-> texts, out |-> << >> ]

NextFlat == CombineTexts

SpecFlat == InitFlat /\ [][NextFlat]_vars

\* str.split(sep) for a non-empty sep: the pieces between the occurrences
\* of sep, found from the left
RECURSIVE SplitFrom(_, _, _)
SplitFrom(s, sep, piece) ==
  IF Len(s) = 0 THEN << piece >>
  ELSE IF StartsWithAt(s, 1, sep)
       THEN << piece >> \o SplitFrom(SubSeq(s, Len(sep) + 1, Len(s)), sep, << >>)
       ELSE SplitFrom(Tail(s), sep, Append(piece, Head(s)))

Split(s, sep) == SplitFrom(s, sep, << >>)

\* str.count(sep)
Count(s, sep) == Len(Split(s, sep)) - 1

NoSentinelIn(texts) ==
  \A k \in 1..Len(texts) : \A i \in 1..Len(texts[k]) : texts[k][i] # Sentinel

\* C23 as stated: for K chapter texts without the sentinel the flat
\* document holds K-1 sentinels, and split at the sentinel it gives the K
\* texts back, in order
C23_AsStated ==
  (pure.op = "combine_chapters" /\ NoSentinelIn(pure.args)) =>
    /\ Count(pure.out[1], << Sentinel >>) = Len(pure.args) - 1
    /\ Split(pure.out[1], << Sentinel >>) = pure.args

\* C23: for K >= 1 chapter texts without the sentinel the flat document
\* holds K-1 sentinels, each on a line of its own between two chapters and
\* none after the last; split at that line (newline, sentinel, newline) it
\* gives the K texts back, in order
C23_RoundTrip ==
  (/\ pure.op = "combine_chapters"
   /\ NoSentinelIn(pure.args)
   /\ Len(pure.args) >= 1) =>
    /\ Count(pure.out[1], << Sentinel >>) = Len(pure.args) - 1
    /\ Split(pure.out[1], << "\n", Sentinel, "\n" >>) = pure.args
    /\ pure.out[1] = << >> \/ pure.out[1][Len(pure.out[1])] # Sentinel

\* three chapters, the second a single newline
C23_Witness ==
  /\ pure.op = "combine_chapters"
  /\ pure.args = << << "a" >>, << "\n" >>, << "a" >> >>
  /\ pure.out[1] = << "a", "\n", Sentinel, "\n", "\n", "\n", Sentinel, "\n", "a" >>

\* the encoder has exited and left output of espeak-ng unread
EncoderGone ==
  /\ ps_enc.state = "exited"
  /\ ps_speak.state = "running"

\* C24: when the encoder has exited before espeak-ng, espeak-ng does not
\* wait on the pipe to the encoder (its next write there ends it with
\* SIGPIPE), and while the driver is inside communicate(), stderr.read() or
\* wait() a step is possible, so that wait() returns
C24_SynthesizerNotBlocked ==
  EncoderGone =>
    /\ ps_speak.out_left > 0 => ENABLED SpeakWritesStdout
    /\ DriverWaits => ENABLED PipeStep

\* the encoder gave up while the pipe was full and espeak-ng had more to
\* write; espeak-ng was ended by SIGPIPE and wait() has returned
C24_Witness ==
  /\ app_pc = "pipe_check"
  /\ ps_enc.returncode = 1
  /\ ps_speak.state = "exited"
  /\ ps_speak.returncode = -13
  /\ ps_speak.out_left > 0
  /\ stdout_pipe = PipeCapacity

(***************************************************************************)
(* sanitize_sentence, lines 258-261, applied to a sentence.                *)
(***************************************************************************)
MaxSentenceLen == 3

SentenceChars == { "-", "\"", "'", "a" }

SanitizeSentence ==
  /\ pure.op = "sentence"
  /\ pure' = [ pure EXCEPT !.op = "sanitize_sentence",
                           !.out = << sanitize_sentence(pure.args[1]) >> ]
  /\ UNCHANGED << gradioVars, appVars, pairVars >>

InitSanitize ==
  /\ GradioIdle
  /\ AppIdle
  /\ PairIdle
  /\ \E sentence \in SeqsUpTo(SentenceChars, MaxSentenceLen) :
       pure = [ op |-> "sentence", args |-> << sentence >>, out |-> << >> ]

NextSanitize == SanitizeSentence

SpecSanitize == InitSanitize /\ [][NextSanitize]_vars

\* C25: the sanitized sentence holds no '--', no double quote and no
\* single quote, and sanitizing it again changes nothing
C25_AsStated ==
  pure.op = "sanitize_sentence" =>
    LET sanitized == pure.out[1]
    IN  /\ \A i \in 1..Len(sanitized) :
             /\ sanitized[i] \notin { "\"", "'" }
             /\ ~StartsWithAt(sanitized, i, << "-", "-" >>)
        /\ sanitize_sentence(sanitized) = sanitized

\* app.py: ebook-convert exited with 0 and left a text file that is not
\* empty
NormalizationOk ==
  \E k \in 1..Len(tool_runs) :
    /\ tool_runs[k].command = "ebook-convert"
    /\ tool_runs[k].exit = 0
    /\ tool_runs[k].output = "text"

\* app.py: the synthesizer, and the encoder if there is one, exited with 0
SynthesisOk ==
  IF output_format = "wav"
  THEN \E k \in 1..Len(tool_runs) :
         tool_runs[k].command = "espeak-ng" /\ tool_runs[k].exit = 0
  ELSE /\ ps_speak.state = "exited" /\ ps_speak.returncode = 0
       /\ ps_enc.state = "exited" /\ ps_enc.returncode = 0

\* C26: whatever app.py's convert_ebook_to_audio returns, the value for the
\* audio player and the value for the download are the same; they are a
\* path only when there was an ebook file, no command was missing, the
\* converter and the synthesis succeeded and the audio file has 1024 bytes
\* or more, and then the status ends with 'Conversion complete!'; a
\* request that ended otherwise returned None for both with an error
\* message
C26_ResultInvariant ==
  /\ returned.audio = returned.file
  /\ returned.audio # "None" =>
       /\ ebook_file
       /\ command_runs
       /\ AbsentCommands = {}
       /\ NormalizationOk
       /\ SynthesisOk
       /\ audio_output = "ok"
       /\ returned.message.kind = "status"
       /\ returned.message.detail[Len(returned.message.detail)]
            = "Conversion complete!"
  /\ (app_pc = "done" /\ returned.audio = "None") =>
       returned.message.kind \in
         { "No ebook file provided", "Missing required command(s)",
           "Calibre conversion failed",
           "Calibre finished, but the output TXT file is missing or empty",
           "Audio generation failed",
           "Audio output file missing or too small",
           "An unexpected critical error occurred" }

\* an ogg audiobook was returned, the cover embedded
C26_Witness ==
  /\ app_pc = "done"
  /\ output_format = "ogg"
  /\ returned.audio = "audio_output_path"
  /\ returned.file = "audio_output_path"
  /\ returned.cover = "cover.jpg"
  /\ \E k \in 1..Len(status_updates) :
       status_updates[k] = "Cover art embedded successfully."

\* every command the request needs, ebook-meta aside, was found
OtherCommandsFound ==
  /\ command_runs
  /\ (RequiredCommands \ { "ebook-meta" }) \subseteq installed

\* C27: a request with an ebook file and cover embedding requested, for
\* which every command but ebook-meta was found and whose progress
\* callback did not raise, has run the converter when it ends, whatever
\* became of the cover
C27_AsStated ==
  (/\ app_pc = "done"
   /\ ebook_file
   /\ embed_cover
   /\ OtherCommandsFound
   /\ returned.message.detail # << "progress" >>) =>
    Invoked("ebook-convert")

\* the contents of the chapter files 0..n-1, one after another
RECURSIVE ChaptersRead(_)
ChaptersRead(n) ==
  IF n = 0 THEN << >>
  ELSE ChaptersRead(n - 1) \o txt_files[ChapterTextPath(n - 1)]

\* the items among the first n whose text is not only whitespace, in
\* document order
ItemsKept(n) == SelectSeq([ i \in 1..n |-> i ], NonEmptyItem)

IsPrefix(s, t) == Len(s) <= Len(t) /\ SubSeq(t, 1, Len(s)) = s

\* C28: after every iteration of the loop the chapter files, read in the
\* order of their numbers, hold the items processed so far that have text,
\* each once and in document order; and no step after the wipe takes a
\* chapter file away or changes what it already holds: a file is only
\* added to at its end
C28_NoTextLost ==
  /\ [](Segmenting =>
          /\ ChapterNumbers = 0..(chapter_counter - 1)
          /\ ChaptersRead(chapter_counter) = ItemsKept(Processed))
  /\ [][pc # "wipe" =>
          \A path \in DOMAIN txt_files :
            /\ path \in DOMAIN txt_files'
            /\ IsPrefix(txt_files[path], txt_files'[path])]_vars

\* three items with text: the second was merged into the first chapter,
\* the third began the second chapter
C28_Witness ==
  /\ pc = "csv"
  /\ Segmenting
  /\ ChapterNumbers = { 0, 1 }
  /\ txt_files[ChapterTextPath(0)] = << 1, 2 >>
  /\ txt_files[ChapterTextPath(1)] = << 3 >>
  /\ ChaptersRead(chapter_counter) = << 1, 2, 3 >>
====
